---- MODULE Spec2Model ----
(***************************************************************************)
(* Arena orchestration engine of agent_arena: the scheduler (ArenaWorld),  *)
(* the channel log, the participants' status machine and the requests the  *)
(* web API awaits directly on the same event loop.                         *)
(*                                                                         *)
(* Atomicity follows asyncio: a coroutine runs until it suspends.  The     *)
(* only suspension points of the modelled code are the adapter call of     *)
(* Agent.step (agent.py:140), asyncio.sleep in _run_scheduler and the      *)
(* await of the scheduler task in stop().  connect(), disconnect(),        *)
(* broadcast() and EventBus.start() contain no await that suspends, so a   *)
(* call of them runs inside the step of its caller.                        *)
(*                                                                         *)
(* Text is a sequence of one-character strings.  Wall-clock time is kept   *)
(* as what the code compares it with: the age class of last_spoke_at and   *)
(* the whole seconds since _last_round_time.  Message ids and timestamps   *)
(* are not kept.                                                           *)
(***************************************************************************)
EXTENDS Integers, Sequences, FiniteSets, TLC

VARIABLES
    registry,         \* AgentRegistry._agents: ids in dict insertion order
    agents,           \* the Agent objects: status, client, last_spoke, message_count
    channels,         \* ArenaWorld.channels: name -> Channel
    default_channel,  \* ArenaWorld.default_channel
    mode,             \* ArenaWorld.mode
    running,          \* ArenaWorld.running
    current_round,    \* ArenaWorld.current_round
    last_round_age,   \* whole seconds since _last_round_time, -1 while the attribute is not set
    bus_running,      \* EventBus._running
    sched,            \* the task running _run_scheduler and its locals
    stopper,          \* a stop() call suspended on the scheduler task
    manual,           \* the API's step_agent requests, one slot per agent
    emitted,          \* events put on the bus queue by the latest step
    appended,         \* every message handed to add_message of the channel under test
    bus,              \* the EventBus: _handlers, _queue, _task and its _process_events tasks
    reply,            \* how the latest call under test came back to its caller
    agent_registry    \* an AgentRegistry under test: _agents and _by_name

vars == <<registry, agents, channels, default_channel, mode, running, current_round,
          last_round_age, bus_running, sched, stopper, manual, emitted, appended, bus, reply, agent_registry>>

(***************************************************************************)
(* Bounds of the model                                                     *)
(***************************************************************************)
ArenaHistory == 2   \* max_history of the Arena's channels (1000 in the code)
MaxRound == 1       \* rounds run before no further round starts
MaxCount == 2       \* largest message_count before a participant produces no more text
MaxHistoryBound == 3  \* largest max_history of the channel under test
MaxAppended == 4    \* add_message calls on the channel under test

(***************************************************************************)
(* Program constants                                                       *)
(***************************************************************************)
ContextCount == 20
RecentOne == 1

Nil == "nil"

AgentIds == {"a1", "a2"}

\* every Agent object there is; the third one joins only where three speakers
\* are needed
CrowdIds == AgentIds \cup {"a3"}

AgentName(a) ==
    CASE a = "a1" -> <<"A", "l">>
      [] a = "a2" -> <<"B", "o">>
      [] OTHER -> <<"C", "y">>

ChannelNames == {"general", "lab"}

Modes == {"turn_based", "async", "hybrid"}

(***************************************************************************)
(* Text helpers                                                            *)
(***************************************************************************)
LowerChar(c) ==
    CASE c = "A" -> "a"
      [] c = "B" -> "b"
      [] c = "C" -> "c"
      [] c = "L" -> "l"
      [] c = "O" -> "o"
      [] OTHER -> c

Lower(s) == [i \in 1..Len(s) |-> LowerChar(s[i])]

WordChars == {"A", "B", "C", "L", "O", "a", "b", "c", "l", "o", "y", "k", "h", "i", "_", "2"}

\* the last position of the longest run of word characters of s that starts
\* right after position i (i itself when there is none)
RunEnd(s, i) ==
    CHOOSE j \in i..Len(s) :
        /\ \A k \in (i + 1)..j : s[k] \in WordChars
        /\ j = Len(s) \/ s[j + 1] \notin WordChars

\* the positions where re.findall(r'@(\w+)') matches: an "@" followed by a word
\* character ("@" is no word character, so no match covers another's "@")
MentionStarts(s) ==
    SelectSeq([i \in 1..Len(s) |-> i],
              LAMBDA i : s[i] = "@" /\ i < Len(s) /\ s[i + 1] \in WordChars)

MentionsFrom(s, starts) ==
    [k \in 1..Len(starts) |-> SubSeq(s, starts[k] + 1, RunEnd(s, starts[k]))]

extract_mentions(content) == MentionsFrom(content, MentionStarts(content))

Range(s) == {s[i] : i \in 1..Len(s)}

Contains(s, sub) ==
    \E i \in 0..(Len(s) - Len(sub)) : SubSeq(s, i + 1, i + Len(sub)) = sub

(***************************************************************************)
(* Message                                                                 *)
(***************************************************************************)
Message(sender_id, sender_name, content, channel, type) ==
    [sender_id |-> sender_id, sender_name |-> sender_name, content |-> content,
     channel |-> channel, type |-> type, mentions |-> extract_mentions(content)]

\* timestamp.strftime("%H:%M:%S") of a message; the clock's reading is left out
time_str(m) == <<"h", ":", "m", ":", "s">>

format_irc(m) ==
    LET stamp == <<"[">> \o time_str(m) \o <<"]", " ">>
    IN  CASE m.type = "action" -> stamp \o <<"*", " ">> \o m.sender_name \o <<" ">> \o m.content
          [] m.type = "system" -> stamp \o <<"*", "*", "*", " ">> \o m.content
          [] m.type = "join" -> stamp \o <<"-", "-", ">", " ">> \o m.content
          [] m.type = "leave" -> stamp \o <<"<", "-", "-", " ">> \o m.content
          [] OTHER -> stamp \o <<"<">> \o m.sender_name \o <<">", " ">> \o m.content

(***************************************************************************)
(* Channel                                                                 *)
(***************************************************************************)
Channel(name, max_history) ==
    [name |-> name, members |-> {}, messages |-> <<>>, max_history |-> max_history,
     topic |-> <<>>]

\* Python's seq[-k:]: the last k elements, and the whole sequence when k = 0
\* (seq[-0:] is seq[0:]) or when k exceeds the length.
SliceLast(seq, k) ==
    IF k = 0 \/ k >= Len(seq) THEN seq
    ELSE SubSeq(seq, Len(seq) - k + 1, Len(seq))

add_message(ch, m) ==
    LET all == Append(ch.messages, m)
    IN  [ch EXCEPT !.messages =
            IF Len(all) > ch.max_history THEN SliceLast(all, ch.max_history) ELSE all]

get_recent_messages(ch, count) == SliceLast(ch.messages, count)

RECURSIVE JoinLines(_)
JoinLines(lines) ==
    IF lines = <<>> THEN <<>>
    ELSE IF Len(lines) = 1 THEN lines[1]
    ELSE lines[1] \o <<"\n">> \o JoinLines(Tail(lines))

get_context_string(ch, count) ==
    LET recent == get_recent_messages(ch, count)
        banner == IF ch.topic # <<>>
                  THEN << <<"=", " ">> \o ch.topic \o <<" ", "=">>, <<>> >>
                  ELSE <<>>
    IN  JoinLines(banner \o [i \in 1..Len(recent) |-> format_irc(recent[i])])

clear_messages(ch) == [ch EXCEPT !.messages = <<>>]

(***************************************************************************)
(* Agent                                                                   *)
(***************************************************************************)
NewAgent == [status |-> "offline", client |-> FALSE, last_spoke |-> "never",
             message_count |-> 0]

\* response_tendency in tenths; interests as lower-case keywords
Tendency(a) == IF a = "a2" THEN 0 ELSE 5

Interests(a) == IF a = "a1" THEN {<<"h", "i">>} ELSE {}

connect(ag) == [ag EXCEPT !.client = TRUE, !.status = "idle"]

disconnect(ag) == [ag EXCEPT !.client = FALSE, !.status = "offline"]

\* The results of the adapter call inside Agent.step.  "text" is a non-empty
\* answer other than [PASS], "pass" is [PASS], "empty" is an answer that strips
\* to the empty string, "error" is any exception of the call.
AdapterTexts == {<<"@", "a", "l">>}

Outcome(kind, text) == [kind |-> kind, text |-> text]

Outcomes ==
    {Outcome("text", t) : t \in AdapterTexts}
        \cup {Outcome("pass", <<>>), Outcome("empty", <<>>), Outcome("error", <<>>)}

\* Agent.step up to its await: the not-connected check and THINKING
step_can_start(ag) == ag.client

step_begin(ag) == [ag EXCEPT !.status = "thinking"]

\* Agent.step after its await: SPEAKING, last_spoke_at and message_count for
\* every answer that is not [PASS], then the finally clause's IDLE.
step_speaks(o) == o.kind \in {"text", "empty"}

step_end(ag, o) ==
    IF step_speaks(o)
    THEN [ag EXCEPT !.status = "idle", !.last_spoke = "lt10",
                    !.message_count = ag.message_count + 1]
    ELSE [ag EXCEPT !.status = "idle"]

\* what step returns: the text, or nothing (None) on [PASS] and on an exception
step_result(o) == IF step_speaks(o) THEN <<o.text>> ELSE <<>>

\* "if not response_text" of the callers: None and "" are both falsy
Truthy(result) == result # <<>> /\ result[1] # <<>>

Min(x, y) == IF x <= y THEN x ELSE y

\* a variant of is_mentioned that compares the names as they are written
is_mentioned_exact(a, m) == AgentName(a) \in {m.mentions[i] : i \in 1..Len(m.mentions)}

is_mentioned(a, m) ==
    Lower(AgentName(a)) \in {Lower(m.mentions[i]) : i \in 1..Len(m.mentions)}

\* Agent.should_respond in thousandths
should_respond(a, ag, m) ==
    LET base0 == Tendency(a) * 30
        base1 == IF "?" \in Range(m.content) THEN base0 + 150 ELSE base0
        base2 == IF \E k \in Interests(a) : Contains(Lower(m.content), Lower(k))
                 THEN base1 + 100 ELSE base1
        base3 == CASE ag.last_spoke = "lt10" -> (base2 * 3) \div 10
                   [] ag.last_spoke = "lt30" -> (base2 * 6) \div 10
                   [] OTHER -> base2
    IN  IF is_mentioned(a, m) THEN Min(950, base0 + 600) ELSE Min(800, base3)

(***************************************************************************)
(* Registry                                                                *)
(***************************************************************************)
register(reg, a) == Append(reg, a)

unregister(reg, a) == SelectSeq(reg, LAMBDA x : x # a)

registry_names(reg) == [i \in 1..Len(reg) |-> AgentName(reg[i])]

\* AgentRegistry with both of its dicts.  _agents is kept in insertion order as
\* a sequence of Agent objects, each with its key, the id; _by_name is a
\* function from lower-case names to ids.
Agent(id, name) == [id |-> id, name |-> name]

AgentRegistry == [agents |-> <<>>, by_name |-> <<>>]

\* d[k] = v of a dict
DictSet(d, k, v) == [x \in DOMAIN d \cup {k} |-> IF x = k THEN v ELSE d[x]]

\* d.pop(k, None) of a dict
DictPop(d, k) == [x \in DOMAIN d \ {k} |-> d[x]]

registry_get(r, id) ==
    LET found == SelectSeq(r.agents, LAMBDA p : p.id = id)
    IN  IF found = <<>> THEN <<>> ELSE <<found[1]>>

\* a variant of registry_register that stores the agent whatever _agents holds
register_overwrite(r, agent) ==
    [reg |-> [agents |-> IF registry_get(r, agent.id) = <<>> THEN Append(r.agents, agent)
                         ELSE [i \in DOMAIN r.agents |->
                                  IF r.agents[i].id = agent.id THEN agent ELSE r.agents[i]],
              by_name |-> DictSet(r.by_name, Lower(agent.name), agent.id)],
     raised |-> FALSE]

\* AgentRegistry.register: the registry afterwards and whether ValueError is raised
registry_register(r, agent) ==
    IF registry_get(r, agent.id) # <<>> THEN [reg |-> r, raised |-> TRUE]
    ELSE [reg |-> [agents |-> Append(r.agents, agent),
                   by_name |-> DictSet(r.by_name, Lower(agent.name), agent.id)],
          raised |-> FALSE]

\* AgentRegistry.unregister: the registry afterwards and the agent returned
registry_unregister(r, id) ==
    LET agent == registry_get(r, id)
    IN  IF agent = <<>> THEN [reg |-> r, value |-> <<>>]
        ELSE [reg |-> [agents |-> SelectSeq(r.agents, LAMBDA p : p.id # id),
                       by_name |-> DictPop(r.by_name, Lower(agent[1].name))],
              value |-> agent]

get_by_name(r, name) ==
    IF Lower(name) \in DOMAIN r.by_name THEN registry_get(r, r.by_name[Lower(name)])
    ELSE <<>>

(***************************************************************************)
(* Events and the part of the state a coroutine of the Arena writes        *)
(***************************************************************************)
Event(type, agent, flag, num, msg) ==
    [type |-> type, agent |-> agent, flag |-> flag, num |-> num, msg |-> msg]

ThinkingEvent(a, flag) == Event("agent_thinking", a, flag, 0, <<>>)

World == [agents |-> agents, channels |-> channels, emitted |-> <<>>,
          current_round |-> current_round, last_round_age |-> last_round_age]

emit(w, e) == [w EXCEPT !.emitted = Append(@, e)]

\* a variant of broadcast that emits the event before it looks for the channel
broadcast_emit_first(w, m) ==
    IF m.channel \notin DOMAIN w.channels
    THEN emit(w, Event("message", Nil, FALSE, 0, <<m>>))
    ELSE emit([w EXCEPT !.channels[m.channel] = add_message(@, m)],
              Event("message", Nil, FALSE, 0, <<m>>))

broadcast(w, m) ==
    IF m.channel \notin DOMAIN w.channels THEN w
    ELSE emit([w EXCEPT !.channels[m.channel] = add_message(@, m)],
              Event("message", Nil, FALSE, 0, <<m>>))

(***************************************************************************)
(* Scheduler: _run_scheduler and what it calls                             *)
(***************************************************************************)
MaxSpeakersPerRound == 3
RoundInterval == 2

NoTask == [pc |-> "none", branch |-> Nil, path |-> Nil, cur |-> Nil, channel |-> Nil,
           context |-> <<>>, list |-> <<>>, pos |-> 0, last_message |-> <<>>,
           n_speakers |-> 0, sleep |-> Nil, tick_mentions |-> 0, tick_rounds |-> 0]

NewTask == [NoTask EXCEPT !.pc = "start"]

Step(w, s) == [w |-> w, s |-> s]

\* a variant of Sleep in which an exception ends the task instead of pausing it
exit_on_error(s, kind) ==
    IF kind = "error" THEN NoTask
    ELSE [s EXCEPT !.pc = "sleep", !.sleep = kind, !.path = Nil, !.cur = Nil,
                   !.channel = Nil, !.context = <<>>, !.list = <<>>, !.pos = 0,
                   !.last_message = <<>>, !.n_speakers = 0]

\* asyncio.sleep at the end of an iteration, or in the except clause
Sleep(s, kind) ==
    [s EXCEPT !.pc = "sleep", !.sleep = kind, !.path = Nil, !.cur = Nil, !.channel = Nil,
              !.context = <<>>, !.list = <<>>, !.pos = 0, !.last_message = <<>>,
              !.n_speakers = 0]

\* the context string of _agent_respond, as the parts its template interpolates
respond_context(w, a) ==
    LET ch == w.channels[default_channel]
    IN  [channel |-> ch.name, log |-> get_context_string(ch, ContextCount),
         participants |-> registry_names(registry), as |-> AgentName(a)]

\* _agent_respond up to the await inside Agent.step.  When the agent has no
\* client step raises, nothing catches it before _run_scheduler, which sleeps.
agent_respond_start(w, s, a, path) ==
    LET w1 == emit(w, ThinkingEvent(a, TRUE))
    IN  IF ~step_can_start(w.agents[a]) THEN Step(w1, Sleep(s, "error"))
        ELSE Step([w1 EXCEPT !.agents[a] = step_begin(@)],
                  [s EXCEPT !.pc = "respond", !.path = path, !.cur = a,
                            !.channel = w.channels[default_channel].name,
                            !.context = <<respond_context(w, a)>>,
                            !.tick_mentions =
                                IF path = "mention" THEN @ + 1 ELSE @])

\* _agent_respond after the await
agent_respond_finish(w, s, o) ==
    LET a == s.cur
        w1 == [w EXCEPT !.agents[a] = step_end(@, o)]
        w2 == emit(w1, ThinkingEvent(a, FALSE))
        result == step_result(o)
    IN  IF ~Truthy(result) THEN w2
        ELSE broadcast(w2, Message(a, AgentName(a), result[1], s.channel, "chat"))

\* stable sort of <<probability, agent>> pairs by descending probability
RECURSIVE InsertDesc(_, _)
InsertDesc(sorted, c) ==
    IF sorted = <<>> THEN <<c>>
    ELSE IF Head(sorted)[1] >= c[1] THEN <<Head(sorted)>> \o InsertDesc(Tail(sorted), c)
    ELSE <<c>> \o sorted

RECURSIVE SortDesc(_)
SortDesc(cands) ==
    IF cands = <<>> THEN <<>>
    ELSE InsertDesc(SortDesc(SubSeq(cands, 1, Len(cands) - 1)), cands[Len(cands)])

\* a variant of eligible that lets the sender of last_message speak again
eligible_any_sender(w, a, last_message) == w.agents[a].status = "idle"

\* the agents _select_speakers scores: IDLE and not the sender of last_message
eligible(w, a, last_message) ==
    /\ w.agents[a].status = "idle"
    /\ a # last_message.sender_id

\* The outcomes of the random calls of one _select_speakers: pick is the index
\* random.choice draws, draw the agents whose random() falls below any
\* probability above zero (random() is in [0, 1), and no probability reaches 1).
\* NoRandom is the outcome in which no agent is drawn.
NoRandom == [pick |-> 1, draw |-> {}]

random_choice(reg, rnd) == reg[((rnd.pick - 1) % Len(reg)) + 1]

\* "recent" of _select_speakers: the most recent message of the default channel
last_message_seen(w) == get_recent_messages(w.channels[default_channel], RecentOne)

\* a variant of select_speakers that returns every registered agent
select_everyone(w, rnd) == registry

\* _select_speakers: on an empty log one registered agent (none when the
\* registry is empty); otherwise the drawn agents by descending probability.
select_speakers(w, rnd) ==
    LET recent == get_recent_messages(w.channels[default_channel], RecentOne)
    IN  IF recent = <<>>
        THEN IF registry = <<>> THEN <<>> ELSE <<random_choice(registry, rnd)>>
        ELSE LET last_message == recent[Len(recent)]
                 prob(a) == should_respond(a, w.agents[a], last_message)
                 idx == SelectSeq([i \in 1..Len(registry) |-> i],
                                  LAMBDA i : /\ eligible(w, registry[i], last_message)
                                             /\ registry[i] \in rnd.draw
                                             /\ prob(registry[i]) > 0)
                 cands(ix) == [k \in 1..Len(ix) |-> <<prob(registry[ix[k]]), registry[ix[k]]>>]
                 names(sorted) == [k \in 1..Len(sorted) |-> sorted[k][2]]
             IN  CHOOSE r \in {names(sorted) :
                                   sorted \in {SortDesc(c) : c \in {cands(ix) : ix \in {idx}}}} :
                     TRUE

\* end of _run_round, and of the iteration that ran it
round_end(w, s) ==
    LET w1 == emit(w, Event("round_ended", Nil, FALSE, w.current_round, <<>>))
    IN  IF s.branch = "hybrid"
        THEN Step([w1 EXCEPT !.last_round_age = 0], Sleep(s, "one"))
        ELSE Step(w1, Sleep(s, "interval"))

\* the for loop of _run_round from position s.pos
round_next(w, s) ==
    IF s.pos >= Len(s.list) THEN round_end(w, s)
    ELSE agent_respond_start(w, [s EXCEPT !.pos = @ + 1], s.list[s.pos + 1], "round")

\* _run_round; rnd are the outcomes of the random calls of _select_speakers
run_round(w, s, rnd) ==
    LET w1 == emit([w EXCEPT !.current_round = @ + 1],
                   Event("round_started", Nil, FALSE, w.current_round + 1, <<>>))
        started(speakers) ==
            [s EXCEPT !.list = SubSeq(speakers, 1, Min(Len(speakers), MaxSpeakersPerRound)),
                      !.pos = 0, !.n_speakers = Len(speakers),
                      !.last_message = last_message_seen(w1),
                      !.tick_rounds = @ + 1]
    IN  CHOOSE r \in {round_next(w1, s1) :
                          s1 \in {started(speakers) :
                                      speakers \in {select_speakers(w1, rnd)}}} : TRUE

\* the periodic round check of _run_hybrid_step
hybrid_round_check(w, s, rnd) ==
    LET w1 == IF w.last_round_age = -1 THEN [w EXCEPT !.last_round_age = 0] ELSE w
    IN  IF w1.last_round_age >= RoundInterval THEN run_round(w1, s, rnd)
        ELSE Step(w1, Sleep(s, "one"))

RECURSIVE mention_scan(_, _, _)

\* a variant of hybrid_after_mention without the return: the loop goes on
hybrid_keeps_scanning(w, s) == mention_scan(w, s, NoRandom)

\* after a mention invocation _run_hybrid_step returns; _check_async_responses
\* goes on with its loop
hybrid_after_mention(w, s) == Step(w, Sleep(s, "one"))

\* the loop over registry.all() of _check_async_responses and _run_hybrid_step
\* from position s.pos; rnd are the outcomes of the random calls, if any is made
mention_scan(w, s, rnd) ==
    IF s.pos >= Len(s.list)
    THEN IF s.branch = "hybrid" THEN hybrid_round_check(w, s, rnd)
         ELSE Step(w, Sleep(s, "one"))
    ELSE LET a == s.list[s.pos + 1]
             s1 == [s EXCEPT !.pos = @ + 1]
         IN  IF w.agents[a].status # "idle" THEN mention_scan(w, s1, rnd)
             ELSE IF is_mentioned(a, s.last_message[1])
                  THEN agent_respond_start(w, s1, a, "mention")
                  ELSE mention_scan(w, s1, rnd)

\* _check_async_responses and _run_hybrid_step from their first line
mention_tick(w, s, rnd) ==
    LET recent == get_recent_messages(w.channels[default_channel], RecentOne)
    IN  IF recent = <<>>
        THEN IF s.branch = "hybrid" THEN hybrid_round_check(w, s, rnd)
             ELSE Step(w, Sleep(s, "one"))
        ELSE mention_scan(w, [s EXCEPT !.list = registry, !.pos = 0,
                                       !.last_message = <<recent[Len(recent)]>>],
                          rnd)

\* one iteration of the while loop of _run_scheduler up to its first await
iteration(w, s, rnd) ==
    LET s0 == [NewTask EXCEPT !.branch = mode]
    IN  IF mode = "turn_based" THEN run_round(w, s0, rnd)
        ELSE mention_tick(w, s0, rnd)

\* the scheduler after the adapter call of s.cur returned o
resume(w, s, o) ==
    LET w1 == agent_respond_finish(w, s, o)
    IN  CASE s.path = "round" -> round_next(w1, s)
          [] s.branch = "hybrid" -> hybrid_after_mention(w1, s)
          [] OTHER -> mention_scan(w1, s, NoRandom)

(***************************************************************************)
(* EventBus: subscribe, unsubscribe, emit, _process_events and _dispatch   *)
(*                                                                         *)
(* A handler list is a Python list object: the list stored in _handlers    *)
(* under a key is one object for as long as the bus lives, and _dispatch   *)
(* iterates over the object _handlers.get returned, by position.  The      *)
(* fields subs, inv, expect, touched, raised, calls and finished record    *)
(* what was registered and invoked; the code does not read them.           *)
(***************************************************************************)
Handlers == {"h1", "h2", "h3"}

\* asyncio.iscoroutinefunction(handler): h1 is a coroutine function that
\* suspends, the others are plain functions
iscoroutinefunction(h) == h = "h1"

EventTypes == {"message", "agent_joined"}

Wildcard == "*"

\* the events of start() and stop() of the Arena
LifecycleTypes == {"simulation_started", "simulation_stopped"}

Keys == EventTypes \cup LifecycleTypes \cup {Wildcard}

NewBus ==
    [handlers |-> [k \in Keys |-> <<>>], keys |-> {}, subs |-> [k \in Keys |-> <<>>],
     queue |-> <<>>, tasks |-> <<>>, task |-> 0, stop |-> 0, calls |-> <<>>,
     finished |-> <<>>, n_events |-> 0, n_subs |-> 0]

\* a task running _process_events, before its first step
NewBusTask ==
    [pc |-> "new", cancel |-> FALSE, ev |-> <<>>, ref |-> Nil, list |-> <<>>, idx |-> 0,
     inv |-> <<>>, expect |-> <<>>, touched |-> FALSE, raised |-> {}]

BusEvent(type, id) == [type |-> type, id |-> id]

Call(h, e, t) == [handler |-> h, event |-> e, task |-> t]

\* what a dispatch that ran to its end did
Report(t, tk) ==
    [task |-> t, event |-> tk.ev[1], inv |-> tk.inv, expect |-> tk.expect,
     touched |-> tk.touched, raised |-> tk.raised]

\* list.remove(x): the first occurrence of x is taken out
RemoveFirst(seq, x) ==
    LET at == CHOOSE i \in 1..Len(seq) : seq[i] = x /\ \A j \in 1..(i - 1) : seq[j] # x
    IN  SubSeq(seq, 1, at - 1) \o SubSeq(seq, at + 1, Len(seq))

\* the registrations changed while these tasks were inside a dispatch
Touch(tasks) ==
    [i \in DOMAIN tasks |->
        IF tasks[i].pc = "handler" THEN [tasks[i] EXCEPT !.touched = TRUE] ELSE tasks[i]]

subscribe(b, k, h) ==
    [b EXCEPT !.keys = @ \cup {k}, !.handlers[k] = Append(@, h),
              !.subs[k] = Append(@, h), !.n_subs = @ + 1, !.tasks = Touch(@)]

\* unsubscribe of a key that was never subscribed does nothing; list.remove
\* of a handler the list does not hold raises ValueError
unsubscribe(b, k, h) ==
    IF k \notin b.keys \/ h \notin Range(b.handlers[k]) THEN b
    ELSE [b EXCEPT !.handlers[k] = RemoveFirst(@, h),
                   !.subs[k] = IF h \in Range(@) THEN RemoveFirst(@, h) ELSE @,
                   !.tasks = Touch(@)]

put_nowait(b, type) ==
    [b EXCEPT !.queue = Append(@, BusEvent(type, b.n_events + 1)), !.n_events = @ + 1]

\* the list object the for loop of _dispatch iterates over
handler_list(b, tk) == IF tk.ref = "own" THEN tk.list ELSE b.handlers[tk.ref]

\* a variant of on_handler_error in which the exception leaves _dispatch and
\* ends the task
propagate_error(tk) == [tk EXCEPT !.pc = "done"]

\* the except clause of _dispatch: the error is logged, the loop goes on
on_handler_error(tk) == tk

\* the top of the while loop of _process_events
loop_top(tk) == [tk EXCEPT !.pc = IF bus_running THEN "wait" ELSE "done"]

RECURSIVE run_handlers(_, _, _)

\* after the handler at position idx returned or raised
handler_done(b, t, raise, raises) ==
    IF ~raise THEN run_handlers(b, t, raises)
    ELSE LET tk == on_handler_error([b.tasks[t] EXCEPT !.raised = @ \cup {b.tasks[t].idx}])
             b1 == [b EXCEPT !.tasks[t] = tk]
         IN  IF tk.pc = "done" THEN b1 ELSE run_handlers(b1, t, raises)

\* the for loop of _dispatch from position idx up to its next suspension: a
\* coroutine function is awaited, a plain function runs to its end; raises are
\* the plain functions that raise when called in this step
run_handlers(b, t, raises) ==
    LET tk == b.tasks[t]
        handlers == handler_list(b, tk)
    IN  IF tk.idx >= Len(handlers)
        THEN [b EXCEPT !.tasks[t] = loop_top(NewBusTask),
                       !.finished = Append(@, Report(t, tk))]
        ELSE LET handler == handlers[tk.idx + 1]
                 called == [b EXCEPT !.tasks[t].idx = @ + 1,
                                     !.tasks[t].inv = Append(@, handler),
                                     !.calls = Append(@, Call(handler, tk.ev[1], t))]
             IN  IF iscoroutinefunction(handler)
                 THEN [called EXCEPT !.tasks[t].pc = "handler"]
                 ELSE handler_done(called, t, handler \in raises, raises)

\* _dispatch(event) from its first line: _handlers.get returns the registered
\* list itself when the type has one, and extend appends the wildcard handlers
\* to the list it is called on
dispatch(b, t, event, raises) ==
    LET wild == IF Wildcard \in b.keys THEN b.handlers[Wildcard] ELSE <<>>
        registered == event.type \in b.keys
        b1 == IF registered THEN [b EXCEPT !.handlers[event.type] = @ \o wild] ELSE b
        tk == [b.tasks[t] EXCEPT !.pc = "dispatch", !.ev = <<event>>,
                                 !.ref = IF registered THEN event.type ELSE "own",
                                 !.list = IF registered THEN <<>> ELSE wild,
                                 !.idx = 0, !.inv = <<>>,
                                 !.expect = b.subs[event.type] \o b.subs[Wildcard],
                                 !.touched = FALSE, !.raised = {}]
    IN  run_handlers([b1 EXCEPT !.tasks[t] = tk], t, raises)

(***************************************************************************)
(* Initial state: ArenaWorld() right after construction                    *)
(***************************************************************************)
NoStop == [pc |-> "none", task |-> NoTask]

NoRequest == [pc |-> "none", channel |-> Nil]

\* no call under test has been made
NoReply == [op |-> Nil, args |-> <<>>, outcome |-> Nil, value |-> <<>>]

Reply(op, args, outcome, value) ==
    [op |-> op, args |-> args, outcome |-> outcome, value |-> value]

\* what a call on an object under test leaves alone
world_vars == <<registry, agents, channels, default_channel, mode, running, current_round,
                last_round_age, bus_running, sched, stopper, manual, emitted, appended, bus>>

Init ==
    /\ registry = <<>>
    /\ agents = [a \in CrowdIds |-> NewAgent]
    /\ channels = [n \in {"general"} |-> Channel(n, ArenaHistory)]
    /\ default_channel = "general"
    /\ mode \in Modes
    /\ running = FALSE
    /\ current_round = 0
    /\ last_round_age = -1
    /\ bus_running = FALSE
    /\ sched = NoTask
    /\ stopper = NoStop
    /\ manual = [a \in CrowdIds |-> NoRequest]
    /\ emitted = <<>>
    /\ appended = <<>>
    /\ bus = NewBus
    /\ reply = NoReply
    /\ agent_registry = AgentRegistry

\* a coroutine's writes become the next state
Commit(w) ==
    /\ agents' = w.agents
    /\ channels' = w.channels
    /\ emitted' = w.emitted
    /\ current_round' = w.current_round
    /\ last_round_age' = w.last_round_age

\* d seconds pass on the clock _last_round_time is compared with
Later(w, d) ==
    IF w.last_round_age = -1 THEN w
    ELSE [w EXCEPT !.last_round_age = Min(RoundInterval, @ + d)]

\* the outcomes of the random calls that _select_speakers can tell apart in the
\* current state: the pick on an empty log, the draws of the registered agents
RandomsNow ==
    IF channels[default_channel].messages = <<>>
    THEN {[pick |-> k, draw |-> {}] : k \in 1..Min(Len(registry), Cardinality(CrowdIds))}
             \cup {NoRandom}
    ELSE {[pick |-> 1, draw |-> D] : D \in SUBSET Range(registry)}

\* the seconds a suspension of at least least seconds may last, as far as the
\* comparison with round_interval can tell them apart
Delays(least) == IF last_round_age = -1 THEN {least} ELSE least..RoundInterval

(***************************************************************************)
(* Requests awaited directly on the event loop                             *)
(***************************************************************************)
HumanTexts == {<<"@", "A", "l", " ", "@", "b", "o", "?">>}

JoinText(a) == AgentName(a) \o <<" ", "j", "o", "i", "n", "e", "d">>

LeaveText(a) == AgentName(a) \o <<" ", "l", "e", "f", "t">>

\* ArenaWorld.add_agent(agent) with the default channels argument.  connected
\* is whether ANTHROPIC_API_KEY is set, without which connect() raises after
\* register() has stored the agent.
add_agent(w, a, connected) ==
    IF ~connected THEN w
    ELSE LET w1 == [w EXCEPT !.agents[a] = connect(@),
                             !.channels[default_channel].members = @ \cup {a}]
             w2 == emit(w1, Event("agent_joined", a, FALSE, 0, <<>>))
         IN  broadcast(w2, Message("system", <<"S">>, JoinText(a), default_channel,
                                   "join"))

AddAgent(a, connected) ==
    /\ a \notin Range(registry)
    /\ registry' = register(registry, a)
    /\ Commit(add_agent(World, a, connected))
    /\ UNCHANGED <<default_channel, mode, running, bus_running, sched, stopper, manual,
                   appended, bus, reply, agent_registry>>

remove_agent(w, a) ==
    LET w1 == broadcast(w, Message("system", <<"S">>, LeaveText(a), default_channel,
                                   "leave"))
        w2 == [w1 EXCEPT !.channels = [n \in DOMAIN @ |->
                                          [@[n] EXCEPT !.members = @ \ {a}]],
                         !.agents[a] = disconnect(@)]
    IN  emit(w2, Event("agent_left", a, FALSE, 0, <<>>))

RemoveAgent(a) ==
    /\ a \in Range(registry)
    /\ registry' = unregister(registry, a)
    /\ Commit(remove_agent(World, a))
    /\ UNCHANGED <<default_channel, mode, running, bus_running, sched, stopper, manual,
                   appended, bus, reply, agent_registry>>

inject_message(w, content) ==
    broadcast(w, Message("human", <<"H">>, content, default_channel, "chat"))

InjectMessage(content) ==
    /\ Commit(inject_message(World, content))
    /\ UNCHANGED <<registry, default_channel, mode, running, bus_running, sched, stopper,
                   manual, appended, bus, reply, agent_registry>>

\* DELETE /api/messages
ClearMessages ==
    /\ channels[default_channel].messages # <<>>
    /\ channels' = [channels EXCEPT ![default_channel] = clear_messages(@)]
    /\ emitted' = <<>>
    /\ UNCHANGED <<registry, agents, default_channel, mode, running, current_round,
                   last_round_age, bus_running, sched, stopper, manual, appended, bus, reply, agent_registry>>

create_channel(chs, name) ==
    [n \in DOMAIN chs \cup {name} |->
        IF n = name THEN Channel(name, ArenaHistory) ELSE chs[n]]

\* GET /r/{room_name} without an API key for the description: a room that does
\* not exist is created with every registered agent as member; the room
\* becomes the default channel
RoomPage(name) ==
    /\ name # default_channel
    /\ LET chs == IF name \in DOMAIN channels THEN channels
                  ELSE [create_channel(channels, name) EXCEPT
                           ![name].members = Range(registry)]
       IN  channels' = chs
    /\ default_channel' = name
    /\ emitted' = <<>>
    /\ UNCHANGED <<registry, agents, mode, running, current_round, last_round_age,
                   bus_running, sched, stopper, manual, appended, bus, reply, agent_registry>>

\* a variant of SwitchRoom without the test that the room exists
switch_any_room(name) ==
    /\ default_channel' = name
    /\ reply' = Reply("switch_room", <<name>>, "returned", <<>>)
    /\ emitted' = <<>>
    /\ UNCHANGED <<registry, agents, channels, mode, running, current_round,
                   last_round_age, bus_running, sched, stopper, manual, appended, bus,
                   agent_registry>>

\* POST /api/rooms/{room_name}/switch: 404 when the room does not exist
SwitchRoom(name) ==
    /\ IF name \in DOMAIN channels
       THEN /\ default_channel' = name
            /\ reply' = Reply("switch_room", <<name>>, "returned", <<>>)
       ELSE /\ default_channel' = default_channel
            /\ reply' = Reply("switch_room", <<name>>, "raised", <<>>)
    /\ emitted' = <<>>
    /\ UNCHANGED <<registry, agents, channels, mode, running, current_round,
                   last_round_age, bus_running, sched, stopper, manual, appended, bus,
                   agent_registry>>

\* ArenaWorld.create_channel called on its own: a fresh Channel under the name,
\* which replaces the Channel the name had
CreateChannel(name) ==
    /\ channels' = create_channel(channels, name)
    /\ reply' = Reply("create_channel", <<name>>, "returned", <<>>)
    /\ emitted' = <<>>
    /\ UNCHANGED <<registry, agents, default_channel, mode, running, current_round,
                   last_round_age, bus_running, sched, stopper, manual, appended, bus,
                   agent_registry>>

\* ArenaWorld.broadcast of a message whose channel the caller chose
Broadcast(m) ==
    /\ Commit(broadcast(World, m))
    /\ reply' = Reply("broadcast", <<m.channel>>, "returned", <<>>)
    /\ UNCHANGED <<registry, default_channel, mode, running, bus_running, sched, stopper,
                   manual, appended, bus, agent_registry>>

\* ArenaWorld.inject_message(content, channel=channel): the message is returned
\* whatever broadcast did with it
inject_message_to(w, content, channel) ==
    broadcast(w, Message("human", <<"H">>, content, channel, "chat"))

InjectMessageTo(content, channel) ==
    /\ Commit(inject_message_to(World, content, channel))
    /\ reply' = Reply("inject_message", <<channel>>, "returned",
                      <<Message("human", <<"H">>, content, channel, "chat")>>)
    /\ UNCHANGED <<registry, default_channel, mode, running, bus_running, sched, stopper,
                   manual, appended, bus, agent_registry>>

\* the channels of channel_names that exist get the agent as member
join_channels(chs, channel_names, a) ==
    [n \in DOMAIN chs |->
        IF n \in Range(channel_names) THEN [chs[n] EXCEPT !.members = @ \cup {a}]
        ELSE chs[n]]

\* ArenaWorld.add_agent(agent, channels=channel_names) after register() stored
\* the agent: connect() raises when connected is false
add_agent_to(w, a, channel_names, connected) ==
    IF ~connected THEN w
    ELSE LET w1 == [w EXCEPT !.agents[a] = connect(@),
                             !.channels = join_channels(@, channel_names, a)]
             w2 == emit(w1, Event("agent_joined", a, FALSE, 0, <<>>))
         IN  broadcast(w2, Message("system", <<"S">>, JoinText(a), default_channel,
                                   "join"))

\* add_agent with a channels list: register() raises for a registered id
AddAgentTo(a, channel_names, connected) ==
    /\ IF a \in Range(registry)
       THEN /\ emitted' = <<>>
            /\ UNCHANGED <<registry, agents, channels, current_round, last_round_age>>
       ELSE /\ registry' = register(registry, a)
            /\ Commit(add_agent_to(World, a, channel_names, connected))
    /\ reply' = Reply("add_agent", channel_names,
                      IF a \in Range(registry) \/ ~connected THEN "raised" ELSE "returned",
                      <<>>)
    /\ UNCHANGED <<default_channel, mode, running, bus_running, sched, stopper, manual,
                   appended, bus, agent_registry>>

\* POST /agents/{agent_id}/step up to the await inside Agent.step
ManualStart(a) ==
    /\ a \in Range(registry)
    /\ manual[a].pc = "none"
    /\ emitted' = <<ThinkingEvent(a, TRUE)>>
    /\ IF step_can_start(agents[a])
       THEN /\ agents' = [agents EXCEPT ![a] = step_begin(@)]
            /\ manual' = [manual EXCEPT ![a] = [pc |-> "await",
                                                  channel |-> channels[default_channel].name]]
       ELSE UNCHANGED <<agents, manual>>
    /\ UNCHANGED <<registry, channels, default_channel, mode, running, current_round,
                   last_round_age, bus_running, sched, stopper, appended, bus, reply, agent_registry>>

\* step_agent after the await
manual_finish(w, a, channel, o) ==
    LET w1 == [w EXCEPT !.agents[a] = step_end(@, o)]
        w2 == emit(w1, ThinkingEvent(a, FALSE))
        result == step_result(o)
    IN  IF ~Truthy(result) THEN w2
        ELSE broadcast(w2, Message(a, AgentName(a), result[1], channel, "chat"))

\* the model's bound on message_count
MayAnswer(a, o) == step_speaks(o) => agents[a].message_count < MaxCount

ManualReturn(a, o) ==
    /\ manual[a].pc = "await"
    /\ MayAnswer(a, o)
    /\ Commit(manual_finish(World, a, manual[a].channel, o))
    /\ manual' = [manual EXCEPT ![a] = NoRequest]
    /\ UNCHANGED <<registry, default_channel, mode, running, bus_running, sched, stopper,
                   appended, bus, reply, agent_registry>>

\* the time that passes moves last_spoke_at into the next age class
TimePasses(a) ==
    /\ agents[a].last_spoke \in {"lt10", "lt30"}
    /\ agents' = [agents EXCEPT ![a].last_spoke = IF @ = "lt10" THEN "lt30" ELSE "ge30"]
    /\ emitted' = <<>>
    /\ UNCHANGED <<registry, channels, default_channel, mode, running, current_round,
                   last_round_age, bus_running, sched, stopper, manual, appended, bus, reply, agent_registry>>

(***************************************************************************)
(* start(), stop() and the scheduler task                                  *)
(***************************************************************************)
Start ==
    /\ ~running
    /\ running' = TRUE
    /\ bus_running' = TRUE
    /\ sched' = NewTask
    /\ emitted' = <<Event("simulation_started", Nil, FALSE, 0, <<>>)>>
    /\ UNCHANGED <<registry, agents, channels, default_channel, mode, current_round,
                   last_round_age, stopper, manual, appended, bus, reply, agent_registry>>

\* a variant of StopBegin that neither cancels the task nor awaits it
stop_without_cancel ==
    /\ running
    /\ stopper.pc = "none"
    /\ running' = FALSE
    /\ stopper' = [pc |-> "task_done", task |-> NoTask]
    /\ emitted' = <<>>
    /\ UNCHANGED <<registry, agents, channels, default_channel, mode, current_round,
                   last_round_age, bus_running, sched, manual, appended, bus, reply, agent_registry>>

\* stop() up to "await self._scheduler_task": the task is cancelled
StopBegin ==
    /\ running
    /\ stopper.pc = "none"
    /\ running' = FALSE
    /\ stopper' = [pc |-> "await_task", task |-> sched]
    /\ sched' = NoTask
    /\ emitted' = <<>>
    /\ UNCHANGED <<registry, agents, channels, default_channel, mode, current_round,
                   last_round_age, bus_running, manual, appended, bus, reply, agent_registry>>

\* a variant of cancel_unwind without the finally clause of Agent.step
cancel_keeps_status(ags, task) == ags

\* the cancelled task: CancelledError at its await; the finally clause of
\* Agent.step sets IDLE, nothing else runs before the loop breaks
cancel_unwind(ags, task) ==
    IF task.pc = "respond" THEN [ags EXCEPT ![task.cur].status = "idle"] ELSE ags

TaskCancelled ==
    /\ stopper.pc = "await_task"
    /\ agents' = cancel_unwind(agents, stopper.task)
    /\ stopper' = [pc |-> "task_done", task |-> NoTask]
    /\ emitted' = <<>>
    /\ UNCHANGED <<registry, channels, default_channel, mode, running, current_round,
                   last_round_age, bus_running, sched, manual, appended, bus, reply, agent_registry>>

\* stop() after the await: the bus is stopped, simulation_stopped is emitted
StopFinish ==
    /\ stopper.pc = "task_done"
    /\ bus_running' = FALSE
    /\ stopper' = NoStop
    /\ emitted' = <<Event("simulation_stopped", Nil, FALSE, current_round, <<>>)>>
    /\ UNCHANGED <<registry, agents, channels, default_channel, mode, running,
                   current_round, last_round_age, sched, manual, appended, bus, reply, agent_registry>>

\* a variant of StartOnRunning without the early return
start_again ==
    /\ running
    /\ bus_running' = TRUE
    /\ sched' = NewTask
    /\ emitted' = <<Event("simulation_started", Nil, FALSE, 0, <<>>)>>
    /\ UNCHANGED <<registry, agents, channels, default_channel, mode, running,
                   current_round, last_round_age, stopper, manual, appended, bus, reply, agent_registry>>

\* start() on an Arena whose running flag is set: the early return
StartOnRunning ==
    /\ running
    /\ emitted' = <<>>
    /\ UNCHANGED <<registry, agents, channels, default_channel, mode, running,
                   current_round, last_round_age, bus_running, sched, stopper, manual,
                   appended, bus, reply, agent_registry>>

\* stop() on an Arena whose running flag is not set: the early return
StopOnStopped ==
    /\ ~running
    /\ emitted' = <<>>
    /\ UNCHANGED <<registry, agents, channels, default_channel, mode, running,
                   current_round, last_round_age, bus_running, sched, stopper, manual,
                   appended, bus, reply, agent_registry>>

\* the loop of _run_scheduler from its top: at the task's first step, or when its
\* sleep is over after d seconds
SchedIterate(rnd, d) ==
    /\ sched.pc \in {"start", "sleep"}
    /\ stopper.pc # "await_task"
    /\ IF ~running
       THEN /\ sched' = NoTask
            /\ emitted' = <<>>
            /\ UNCHANGED <<agents, channels, current_round, last_round_age>>
       ELSE LET w == IF sched.pc = "sleep" THEN Later(World, d) ELSE World
            IN  \E r \in {iteration(w, sched, rnd)} :
                    /\ r.s.tick_rounds > 0 => current_round < MaxRound
                    /\ sched' = r.s
                    /\ Commit(r.w)
    /\ UNCHANGED <<registry, default_channel, mode, running, bus_running, stopper, manual,
                   appended, bus, reply, agent_registry>>

\* the adapter call of the scheduler's invocation returns o after d seconds
SchedReturn(o, d) ==
    /\ sched.pc = "respond"
    /\ MayAnswer(sched.cur, o)
    /\ \E r \in {resume(Later(World, d), sched, o)} :
           /\ r.s.tick_rounds > sched.tick_rounds => current_round < MaxRound
           /\ sched' = r.s
           /\ Commit(r.w)
    /\ UNCHANGED <<registry, default_channel, mode, running, bus_running, stopper, manual,
                   appended, bus, reply, agent_registry>>

Next ==
    \/ \E a \in AgentIds, connected \in BOOLEAN : AddAgent(a, connected)
    \/ \E a \in AgentIds : RemoveAgent(a)
    \/ \E t \in HumanTexts : InjectMessage(t)
    \/ ClearMessages
    \/ \E n \in ChannelNames : RoomPage(n)
    \/ \E a \in AgentIds : ManualStart(a)
    \/ \E a \in AgentIds, o \in Outcomes : ManualReturn(a, o)
    \/ \E a \in AgentIds : TimePasses(a)
    \/ Start
    \/ StopBegin
    \/ TaskCancelled
    \/ StopFinish
    \/ \E rnd \in RandomsNow, d \in Delays(1) : SchedIterate(rnd, d)
    \/ \E o \in Outcomes, d \in Delays(0) : SchedReturn(o, d)

\* the whole system: every request, every mode
Spec == Init /\ [][Next]_vars

(***************************************************************************)
(* The system per scheduling mode, each with the requests that interfere   *)
(* with what is checked in it                                              *)
(***************************************************************************)
\* Turn-based rounds with agents that may fail to connect and a room switch
InitTurn == Init /\ mode = "turn_based"

NextTurn ==
    \/ \E a \in AgentIds, connected \in BOOLEAN : AddAgent(a, connected)
    \/ \E t \in HumanTexts : InjectMessage(t)
    \/ \E n \in ChannelNames : RoomPage(n)
    \/ \E a \in AgentIds : TimePasses(a)
    \/ Start
    \/ \E rnd \in RandomsNow, d \in Delays(1) : SchedIterate(rnd, d)
    \/ \E o \in Outcomes, d \in Delays(0) : SchedReturn(o, d)

SpecTurn == InitTurn /\ [][NextTurn]_vars

\* Turn-based rounds with manual steps
InitRound == Init /\ mode = "turn_based"

NextRound ==
    \/ \E a \in AgentIds : AddAgent(a, TRUE)
    \/ \E t \in HumanTexts : InjectMessage(t)
    \/ \E a \in AgentIds : ManualStart(a)
    \/ \E a \in AgentIds, o \in Outcomes : ManualReturn(a, o)
    \/ Start
    \/ \E rnd \in RandomsNow, d \in Delays(1) : SchedIterate(rnd, d)
    \/ \E o \in Outcomes, d \in Delays(0) : SchedReturn(o, d)

SpecRound == InitRound /\ [][NextRound]_vars

\* Async ticks with manual steps of one agent and the removal of the other
InitAsync == Init /\ mode = "async"

NextAsync ==
    \/ \E a \in AgentIds : AddAgent(a, TRUE)
    \/ \E a \in {"a1"} : RemoveAgent(a)
    \/ \E t \in HumanTexts : InjectMessage(t)
    \/ \E a \in {"a2"} : ManualStart(a)
    \/ \E a \in {"a2"}, o \in Outcomes : ManualReturn(a, o)
    \/ Start
    \/ \E rnd \in RandomsNow, d \in Delays(1) : SchedIterate(rnd, d)
    \/ \E o \in Outcomes, d \in Delays(0) : SchedReturn(o, d)

SpecAsync == InitAsync /\ [][NextAsync]_vars

\* Async ticks with nothing but the scheduler's own invocations
NextMention ==
    \/ \E a \in AgentIds : AddAgent(a, TRUE)
    \/ \E t \in HumanTexts : InjectMessage(t)
    \/ Start
    \/ \E rnd \in RandomsNow, d \in Delays(1) : SchedIterate(rnd, d)
    \/ \E o \in Outcomes, d \in Delays(0) : SchedReturn(o, d)

SpecMention == InitAsync /\ [][NextMention]_vars

\* Hybrid ticks with stop() and start() called one after the other, as the
\* command line interface does
InitHybrid == Init /\ mode = "hybrid"

NextHybrid ==
    \/ \E a \in AgentIds : AddAgent(a, TRUE)
    \/ \E t \in HumanTexts : InjectMessage(t)
    \/ ClearMessages
    \/ stopper.pc = "none" /\ Start
    \/ StopBegin
    \/ TaskCancelled
    \/ StopFinish
    \/ \E rnd \in RandomsNow, d \in Delays(1) : SchedIterate(rnd, d)
    \/ \E o \in Outcomes, d \in Delays(0) : SchedReturn(o, d)

SpecHybrid == InitHybrid /\ [][NextHybrid]_vars

\* the fairness the event loop gives a started scheduler: a sleep ends, a
\* cancelled task is resumed, and (the premise of the starvation claim) every
\* adapter call returns
FairHybrid ==
    /\ SpecHybrid
    /\ WF_vars(\E rnd \in RandomsNow, d \in Delays(1) : SchedIterate(rnd, d))
    /\ WF_vars(\E o \in Outcomes, d \in Delays(0) : SchedReturn(o, d))
    /\ WF_vars(TaskCancelled)
    /\ WF_vars(StopFinish)

\* Turn-based rounds with three agents, one of which may be removed
InitCrowd == Init /\ mode = "turn_based"

NextCrowd ==
    \/ \E a \in CrowdIds : AddAgent(a, TRUE)
    \/ \E a \in {"a2"} : RemoveAgent(a)
    \/ \E t \in HumanTexts : InjectMessage(t)
    \/ Start
    \/ \E rnd \in RandomsNow, d \in Delays(1) : SchedIterate(rnd, d)
    \/ \E o \in Outcomes, d \in Delays(0) : SchedReturn(o, d)

SpecCrowd == InitCrowd /\ [][NextCrowd]_vars

\* Every mode with agents that may fail to connect and with start() and stop()
\* called one after the other, also when they have nothing to do
NextLife ==
    \/ \E a \in AgentIds, connected \in BOOLEAN : AddAgent(a, connected)
    \/ \E t \in HumanTexts : InjectMessage(t)
    \/ stopper.pc = "none" /\ Start
    \/ StartOnRunning
    \/ StopBegin
    \/ StopOnStopped
    \/ TaskCancelled
    \/ StopFinish
    \/ \E rnd \in RandomsNow, d \in Delays(1) : SchedIterate(rnd, d)
    \/ \E o \in Outcomes, d \in Delays(0) : SchedReturn(o, d)

SpecLife == Init /\ [][NextLife]_vars

\* Turn-based rounds stopped at any point of an invocation, with a manual
\* step and the removal of the participant under invocation
NextCancel ==
    \/ \E a \in AgentIds : AddAgent(a, TRUE)
    \/ \E a \in {"a1"} : RemoveAgent(a)
    \/ \E a \in {"a1"} : ManualStart(a)
    \/ \E a \in {"a1"}, o \in Outcomes : ManualReturn(a, o)
    \/ stopper.pc = "none" /\ Start
    \/ StopBegin
    \/ TaskCancelled
    \/ StopFinish
    \/ \E rnd \in RandomsNow, d \in Delays(1) : SchedIterate(rnd, d)
    \/ \E o \in Outcomes, d \in Delays(0) : SchedReturn(o, d)

SpecCancel == InitTurn /\ [][NextCancel]_vars

\* POST /start: when the Arena is not running the route assigns the mode and
\* the running flag itself and leaves start() to a task it creates
PostStart(m) ==
    /\ ~running
    /\ reply.outcome # "pending"
    /\ mode' = m
    /\ running' = TRUE
    /\ reply' = Reply("start", <<>>, "pending", <<>>)
    /\ emitted' = <<>>
    /\ UNCHANGED <<registry, agents, channels, default_channel, current_round,
                   last_round_age, bus_running, sched, stopper, manual, appended, bus,
                   agent_registry>>

\* the task of POST /start runs start(), which, whatever the running flag
\* is by then, has no await that suspends
PostStartTask ==
    /\ reply.outcome = "pending"
    /\ reply' = Reply("start", <<>>, "returned", <<>>)
    /\ IF running
       THEN /\ emitted' = <<>>
            /\ UNCHANGED <<running, bus_running, sched>>
       ELSE /\ running' = TRUE
            /\ bus_running' = TRUE
            /\ sched' = NewTask
            /\ emitted' = <<Event("simulation_started", Nil, FALSE, 0, <<>>)>>
    /\ UNCHANGED <<registry, agents, channels, default_channel, mode, current_round,
                   last_round_age, stopper, manual, appended, bus, agent_registry>>

\* Every mode with start() and stop() called at any time, a start() during a
\* stop() included, from the command line interface and from the web routes
NextOverlap ==
    \/ \E a \in AgentIds : AddAgent(a, TRUE)
    \/ Start
    \/ \E m \in Modes : PostStart(m)
    \/ PostStartTask
    \/ StopBegin
    \/ TaskCancelled
    \/ StopFinish
    \/ \E rnd \in RandomsNow, d \in Delays(1) : SchedIterate(rnd, d)
    \/ \E o \in Outcomes, d \in Delays(0) : SchedReturn(o, d)

SpecOverlap == Init /\ [][NextOverlap]_vars

(***************************************************************************)
(* The EventBus on its own: any sequence of its calls, and its tasks       *)
(***************************************************************************)
MaxSubscribes == 2   \* subscribe calls
MaxEvents == 2       \* emit calls
MaxStarts == 2       \* start calls

arena_vars == <<registry, agents, channels, default_channel, mode, running, current_round,
                last_round_age, sched, stopper, manual, emitted, appended, reply,
                agent_registry>>

\* the bus before a step: calls holds the handlers the step invokes, finished
\* the dispatches that end in it
Quiet(b) == [b EXCEPT !.calls = <<>>, !.finished = <<>>]

\* the plain functions that raise when called in one step
Raisers == {{}, {"h2"}}

\* the registrations the callers make: h1 and h2 for message events, h3 for
\* every event; agent_joined events have no handler of their own
Subscriptions == {<<"message", "h1">>, <<"message", "h2">>, <<Wildcard, "h3">>}

BusSubscribe(k, h) ==
    /\ bus.n_subs < MaxSubscribes
    /\ bus' = subscribe(Quiet(bus), k, h)
    /\ UNCHANGED <<bus_running, arena_vars>>

\* unsubscribe of a registration that was made
BusUnsubscribe(k, h) ==
    /\ h \in Range(bus.subs[k])
    /\ bus' = unsubscribe(Quiet(bus), k, h)
    /\ UNCHANGED <<bus_running, arena_vars>>

BusEmit(type) ==
    /\ bus.n_events < MaxEvents
    /\ bus' = put_nowait(Quiet(bus), type)
    /\ UNCHANGED <<bus_running, arena_vars>>

\* EventBus.start(): the flag is set and a new task replaces the handle
BusStart ==
    /\ Len(bus.tasks) < MaxStarts
    /\ bus_running' = TRUE
    /\ bus' = [Quiet(bus) EXCEPT !.tasks = Append(@, NewBusTask), !.task = Len(bus.tasks) + 1]
    /\ UNCHANGED arena_vars

\* EventBus.stop() up to "await self._task": the flag is cleared and the task
\* of the handle is cancelled; awaiting a task that is done does not suspend
BusStopBegin ==
    /\ bus.stop = 0
    /\ bus_running' = FALSE
    /\ bus' = IF bus.task = 0 \/ bus.tasks[bus.task].pc = "done" THEN Quiet(bus)
              ELSE [Quiet(bus) EXCEPT !.tasks[bus.task].cancel = TRUE, !.stop = bus.task]
    /\ UNCHANGED arena_vars

\* CancelledError at the await the task is suspended in (wait_for, or the
\* awaited handler, whose dispatch is abandoned), or before its first step
BusTaskCancelled(t) ==
    /\ bus.tasks[t].cancel
    /\ bus.tasks[t].pc # "done"
    /\ bus' = [Quiet(bus) EXCEPT
                  !.tasks[t] = [NewBusTask EXCEPT !.pc = "done"]]
    /\ UNCHANGED <<bus_running, arena_vars>>

\* EventBus.stop() after the await
BusStopEnd ==
    /\ bus.stop # 0
    /\ bus.tasks[bus.stop].pc = "done"
    /\ bus' = [Quiet(bus) EXCEPT !.stop = 0]
    /\ UNCHANGED <<bus_running, arena_vars>>

\* the first step of a task: the while condition
BusTaskFirst(t) ==
    /\ bus.tasks[t].pc = "new"
    /\ ~bus.tasks[t].cancel
    /\ bus' = [Quiet(bus) EXCEPT !.tasks[t] = loop_top(@)]
    /\ UNCHANGED <<bus_running, arena_vars>>

\* wait_for(queue.get()) returns an event and _dispatch runs up to its first
\* suspension, or to its end and the while condition
BusGet(t, raises) ==
    /\ bus.tasks[t].pc = "wait"
    /\ ~bus.tasks[t].cancel
    /\ bus.queue # <<>>
    /\ bus' = dispatch([Quiet(bus) EXCEPT !.queue = Tail(@)], t, Head(bus.queue), raises)
    /\ UNCHANGED <<bus_running, arena_vars>>

\* wait_for times out on an empty queue; with the flag set the task is back in
\* wait_for, which is no change
BusTimeout(t) ==
    /\ bus.tasks[t].pc = "wait"
    /\ ~bus.tasks[t].cancel
    /\ bus.queue = <<>>
    /\ ~bus_running
    /\ bus' = [Quiet(bus) EXCEPT !.tasks[t] = loop_top(@)]
    /\ UNCHANGED <<bus_running, arena_vars>>

\* the awaited handler returns, or raises an Exception
BusHandlerReturn(t, raise, raises) ==
    /\ bus.tasks[t].pc = "handler"
    /\ ~bus.tasks[t].cancel
    /\ bus' = handler_done(Quiet(bus), t, raise, raises)
    /\ UNCHANGED <<bus_running, arena_vars>>

TaskIds == 1..MaxStarts

BusTaskStep(t) ==
    \/ BusTaskFirst(t)
    \/ \E raises \in Raisers : BusGet(t, raises)
    \/ BusTimeout(t)
    \/ \E raise \in BOOLEAN, raises \in Raisers : BusHandlerReturn(t, raise, raises)
    \/ BusTaskCancelled(t)

NextBus ==
    \/ \E r \in Subscriptions : BusSubscribe(r[1], r[2])
    \/ \E r \in Subscriptions : BusUnsubscribe(r[1], r[2])
    \/ \E type \in EventTypes : BusEmit(type)
    \/ BusStart
    \/ BusStopBegin
    \/ BusStopEnd
    \/ \E t \in DOMAIN bus.tasks : BusTaskFirst(t)
    \/ \E t \in DOMAIN bus.tasks, raises \in Raisers : BusGet(t, raises)
    \/ \E t \in DOMAIN bus.tasks : BusTimeout(t)
    \/ \E t \in DOMAIN bus.tasks, raise \in BOOLEAN, raises \in Raisers :
           BusHandlerReturn(t, raise, raises)
    \/ \E t \in DOMAIN bus.tasks : BusTaskCancelled(t)

InitBus == Init /\ mode = "hybrid"

SpecBus == InitBus /\ [][NextBus]_vars

\* a bus that is started once and not stopped, with handlers that raise
NextDispatch ==
    \/ \E r \in Subscriptions : BusSubscribe(r[1], r[2])
    \/ \E type \in EventTypes : BusEmit(type)
    \/ bus.tasks = <<>> /\ BusStart
    \/ \E t \in DOMAIN bus.tasks : BusTaskFirst(t)
    \/ \E t \in DOMAIN bus.tasks, raises \in Raisers : BusGet(t, raises)
    \/ \E t \in DOMAIN bus.tasks, raise \in BOOLEAN, raises \in Raisers :
           BusHandlerReturn(t, raise, raises)

SpecDispatch == InitBus /\ [][NextDispatch]_vars

\* the event loop runs every task that can take a step, and an awaited handler
\* returns
FairBus == SpecBus /\ \A t \in TaskIds : WF_vars(t \in DOMAIN bus.tasks /\ BusTaskStep(t))

(***************************************************************************)
(* The Arena with its EventBus: start() and stop() of ArenaWorld call       *)
(* start() and stop() of the bus and put their events on its queue         *)
(***************************************************************************)
\* the handlers a front end registers for the lifecycle events
LifeSubscriptions == {<<"simulation_started", "h1">>, <<"simulation_stopped", "h2">>}

\* ArenaWorld.start() as a whole: it has no await that suspends
WorldStart ==
    /\ ~running
    /\ Len(bus.tasks) < MaxStarts
    /\ running' = TRUE
    /\ bus_running' = TRUE
    /\ sched' = NewTask
    /\ bus' = put_nowait([Quiet(bus) EXCEPT !.tasks = Append(@, NewBusTask),
                                           !.task = Len(bus.tasks) + 1],
                         "simulation_started")
    /\ emitted' = <<Event("simulation_started", Nil, FALSE, 0, <<>>)>>
    /\ UNCHANGED <<registry, agents, channels, default_channel, mode, current_round,
                   last_round_age, stopper, manual, appended, reply, agent_registry>>

\* stop() from the end of its await of the scheduler task: event_bus.stop()
\* clears the flag, cancels the task of the handle and awaits it; when that
\* task is done already the await does not suspend and stop() runs to its end
WorldStopBus ==
    /\ stopper.pc = "task_done"
    /\ bus_running' = FALSE
    /\ IF bus.task = 0 \/ bus.tasks[bus.task].pc = "done"
       THEN /\ bus' = put_nowait(Quiet(bus), "simulation_stopped")
            /\ stopper' = NoStop
            /\ emitted' = <<Event("simulation_stopped", Nil, FALSE, current_round, <<>>)>>
       ELSE /\ bus' = [Quiet(bus) EXCEPT !.tasks[bus.task].cancel = TRUE, !.stop = bus.task]
            /\ stopper' = [pc |-> "await_bus", task |-> NoTask]
            /\ emitted' = <<>>
    /\ UNCHANGED <<registry, agents, channels, default_channel, mode, running,
                   current_round, last_round_age, sched, manual, appended, reply,
                   agent_registry>>

\* stop() after the await inside event_bus.stop(): simulation_stopped is emitted
WorldStopFinish ==
    /\ stopper.pc = "await_bus"
    /\ bus.tasks[bus.stop].pc = "done"
    /\ bus' = put_nowait([Quiet(bus) EXCEPT !.stop = 0], "simulation_stopped")
    /\ stopper' = NoStop
    /\ emitted' = <<Event("simulation_stopped", Nil, FALSE, current_round, <<>>)>>
    /\ UNCHANGED <<registry, agents, channels, default_channel, mode, running,
                   current_round, last_round_age, bus_running, sched, manual, appended,
                   reply, agent_registry>>

\* An Arena without participants in Async mode, whose scheduler emits nothing,
\* started and stopped by calls that follow one another
NextWorldBus ==
    \/ \E r \in LifeSubscriptions : BusSubscribe(r[1], r[2])
    \/ stopper.pc = "none" /\ WorldStart
    \/ StopBegin
    \/ TaskCancelled
    \/ WorldStopBus
    \/ WorldStopFinish
    \/ \E rnd \in RandomsNow, d \in Delays(1) : SchedIterate(rnd, d)
    \/ \E t \in DOMAIN bus.tasks : BusTaskFirst(t)
    \/ \E t \in DOMAIN bus.tasks, raises \in Raisers : BusGet(t, raises)
    \/ \E t \in DOMAIN bus.tasks, raise \in BOOLEAN, raises \in Raisers :
           BusHandlerReturn(t, raise, raises)
    \/ \E t \in DOMAIN bus.tasks : BusTaskCancelled(t)

SpecWorldBus == InitAsync /\ [][NextWorldBus]_vars

\* the event loop runs every task that can take a step: the dispatch tasks,
\* the scheduler task, and the coroutine of stop(); an awaited handler returns
FairWorldBus ==
    /\ SpecWorldBus
    /\ \A t \in TaskIds : WF_vars(t \in DOMAIN bus.tasks /\ BusTaskStep(t))
    /\ WF_vars(\E rnd \in RandomsNow, d \in Delays(1) : SchedIterate(rnd, d))
    /\ WF_vars(TaskCancelled)
    /\ WF_vars(WorldStopBus)
    /\ WF_vars(WorldStopFinish)

(***************************************************************************)
(* A Channel on its own: add_message for every max_history                 *)
(***************************************************************************)
TestMessages ==
    {Message("human", <<"H">>, <<"h", "i">>, "general", "chat"),
     Message("a1", AgentName("a1"), <<"@", "b", "o">>, "general", "chat"),
     Message("system", <<"S">>, JoinText("a1"), "general", "join")}

InitChannel ==
    /\ registry = <<>>
    /\ agents = [a \in CrowdIds |-> NewAgent]
    /\ \E h \in 0..MaxHistoryBound : channels = [n \in {"general"} |-> Channel(n, h)]
    /\ default_channel = "general"
    /\ mode = "hybrid"
    /\ running = FALSE
    /\ current_round = 0
    /\ last_round_age = -1
    /\ bus_running = FALSE
    /\ sched = NoTask
    /\ stopper = NoStop
    /\ manual = [a \in CrowdIds |-> NoRequest]
    /\ emitted = <<>>
    /\ appended = <<>>
    /\ bus = NewBus
    /\ reply = NoReply
    /\ agent_registry = AgentRegistry

ChannelAddMessage(m) ==
    /\ Len(appended) < MaxAppended
    /\ channels' = [channels EXCEPT !["general"] = add_message(@, m)]
    /\ appended' = Append(appended, m)
    /\ UNCHANGED <<registry, agents, default_channel, mode, running, current_round,
                   last_round_age, bus_running, sched, stopper, manual, emitted, bus, reply, agent_registry>>

NextChannel == \E m \in TestMessages : ChannelAddMessage(m)

SpecChannel == InitChannel /\ [][NextChannel]_vars

(***************************************************************************)
(* The Arena's channels: calls that name a channel, and the default room   *)
(***************************************************************************)
RoomMessages == {Message("a1", AgentName("a1"), <<"h", "i">>, n, "chat") : n \in ChannelNames}

NextRooms ==
    \/ \E a \in AgentIds, n \in ChannelNames, connected \in BOOLEAN :
           AddAgentTo(a, <<n>>, connected)
    \/ \E t \in HumanTexts, n \in ChannelNames : InjectMessageTo(t, n)
    \/ \E m \in RoomMessages : Broadcast(m)
    \/ \E n \in ChannelNames : CreateChannel(n)
    \/ \E n \in ChannelNames : RoomPage(n)
    \/ \E n \in ChannelNames : SwitchRoom(n)

InitRooms == Init /\ mode = "hybrid"

SpecRooms == InitRooms /\ [][NextRooms]_vars

\* The calls that create channels or move the default room, with agents joining
NextDefault ==
    \/ \E a \in AgentIds, n \in ChannelNames, connected \in BOOLEAN :
           AddAgentTo(a, <<n>>, connected)
    \/ \E n \in ChannelNames : CreateChannel(n)
    \/ \E n \in ChannelNames : RoomPage(n)
    \/ \E n \in ChannelNames : SwitchRoom(n)

SpecDefault == InitRooms /\ [][NextDefault]_vars

\* The Channel with callers that read its most recent messages
MaxRecent == 3       \* largest count asked of get_recent_messages

ChannelGetRecent(count) ==
    /\ reply' = Reply("get_recent_messages", <<count>>, "returned",
                      get_recent_messages(channels["general"], count))
    /\ UNCHANGED <<world_vars, agent_registry>>

NextRecent ==
    \/ \E m \in TestMessages : ChannelAddMessage(m)
    \/ \E count \in 0..MaxRecent : ChannelGetRecent(count)

SpecRecent == InitChannel /\ [][NextRecent]_vars

(***************************************************************************)
(* An AgentRegistry on its own: any sequence of register and unregister    *)
(***************************************************************************)
\* names that differ in letter case only, and one that differs otherwise
TestNames == {<<"A", "l">>, <<"a", "l">>, <<"B", "o">>}

\* every Agent object a caller can hand to register: Agent.from_config takes
\* the id from the config or draws a fresh one, the name always from the config
TestAgents == {Agent(id, name) : id \in AgentIds, name \in TestNames}

RegistryRegister(agent) ==
    /\ \E r \in {registry_register(agent_registry, agent)} :
           /\ agent_registry' = r.reg
           /\ reply' = Reply("register", <<agent>>,
                             IF r.raised THEN "raised" ELSE "returned", <<>>)
    /\ UNCHANGED world_vars

RegistryUnregister(id) ==
    /\ \E r \in {registry_unregister(agent_registry, id)} :
           /\ agent_registry' = r.reg
           /\ reply' = Reply("unregister", <<id>>, "returned", r.value)
    /\ UNCHANGED world_vars

NextRegistry ==
    \/ \E agent \in TestAgents : RegistryRegister(agent)
    \/ \E id \in AgentIds : RegistryUnregister(id)

InitRegistry == Init /\ mode = "hybrid"

SpecRegistry == InitRegistry /\ [][NextRegistry]_vars

\* Everything that calls broadcast: joins and leaves, injected messages for
\* the default room and for a room that does not exist, turn-based rounds
NextBroadcast ==
    \/ \E a \in AgentIds : AddAgent(a, TRUE)
    \/ \E a \in {"a2"} : RemoveAgent(a)
    \/ \E t \in HumanTexts, n \in ChannelNames : InjectMessageTo(t, n)
    \/ ClearMessages
    \/ Start
    \/ \E rnd \in RandomsNow, d \in Delays(1) : SchedIterate(rnd, d)
    \/ \E o \in Outcomes, d \in Delays(0) : SchedReturn(o, d)

SpecBroadcast == InitTurn /\ [][NextBroadcast]_vars

(***************************************************************************)
(* Agent.should_respond on its own: any tendency, message and recency      *)
(***************************************************************************)
\* response_tendency in twentieths: 0, 0.05, ..., 1
TendencyGrid == {t \in 0..20 : TRUE}

\* the ages of last_spoke_at that should_respond tells apart
AgeClasses == {"never", "lt10", "lt30", "ge30"}

\* a variant of should_respond that looks for the name as it is written
should_respond_exact(self, message) ==
    LET base_prob == self.response_tendency * 150
    IN  IF self.name \in Range(message.mentions)
        THEN Min(9500, base_prob + 6000)
        ELSE Min(8000, base_prob)

\* Agent.should_respond of any Agent: self is the name, response_tendency (in
\* twentieths), interests and the age class of last_spoke_at; message is the
\* content and the mentions.  The score is in ten-thousandths, which keeps
\* every product of the code exact.
agent_should_respond(self, message) ==
    LET base_prob == self.response_tendency * 150
        question == IF "?" \in Range(message.content) THEN base_prob + 1500 ELSE base_prob
        content_lower == Lower(message.content)
        topic == IF \E interest \in self.interests : Contains(content_lower, Lower(interest))
                 THEN question + 1000 ELSE question
        recent == CASE self.last_spoke = "lt10" -> (topic * 3) \div 10
                    [] self.last_spoke = "lt30" -> (topic * 6) \div 10
                    [] OTHER -> topic
    IN  IF Lower(self.name) \in {Lower(message.mentions[i]) : i \in 1..Len(message.mentions)}
        THEN Min(9500, base_prob + 6000)
        ELSE Min(8000, recent)

TestSelves ==
    [name : {<<"A", "l">>, <<"B", "o">>},
     response_tendency : TendencyGrid,
     interests : {{}, {<<"L", "O">>}},
     last_spoke : AgeClasses]

TestContents ==
    {<<"h", "i">>, <<"h", "i", "?">>, <<"l", "o">>, <<"L", "o", "?">>,
     <<"@", "a", "l">>, <<"@", "A", "l", " ", "l", "o", "?">>}

ShouldRespond(self, content) ==
    /\ \E message \in {Message("human", <<"H">>, content, "general", "chat")} :
           reply' = Reply("should_respond", <<self, message>>, "returned",
                          <<agent_should_respond(self, message)>>)
    /\ UNCHANGED <<world_vars, agent_registry>>

NextScore == \E self \in TestSelves, content \in TestContents : ShouldRespond(self, content)

SpecScore == InitRegistry /\ [][NextScore]_vars

(***************************************************************************)
(* Message on its own: every way of constructing one                       *)
(***************************************************************************)
\* Message.__post_init__: the content is searched only when the mentions
\* argument is empty ("if not self.mentions")
post_init(content, mentions) ==
    IF mentions = <<>> THEN extract_mentions(content) ELSE mentions

\* Message(sender_id, sender_name, content, mentions=mentions), as far as the
\* content and the mentions go; the default of mentions is the empty list
new_message(content, mentions) ==
    [content |-> content, mentions |-> post_init(content, mentions)]

to_dict(m) == [content |-> m.content, mentions |-> m.mentions]

\* data.get("mentions", [])
from_dict(data) ==
    new_message(data.content,
                IF "mentions" \in DOMAIN data THEN data.mentions ELSE <<>>)

MessageContents ==
    TestContents \cup
        {<<"@", "B", "o", " ", "@", "a", "l", "_", "2">>, <<"@", "a", "l", "@", "a", "l">>,
         <<"@", " ", "a", "l">>, <<"a", "@", "b", "o", ".", "@">>}

MentionLists == {<<>>, << <<"B", "o">> >>, << <<"a", "l">> >>, << <<"a", "l">>, <<"a", "l">> >>}

\* the dictionaries from_dict is given: with and without the "mentions" key
MessageDicts ==
    [content : MessageContents, mentions : MentionLists] \cup [content : MessageContents]

MessageDirect(content) ==
    /\ reply' = Reply("Message", <<content>>, "returned", <<new_message(content, <<>>)>>)
    /\ UNCHANGED <<world_vars, agent_registry>>

MessageWithMentions(content, mentions) ==
    /\ reply' = Reply("Message", <<content, mentions>>, "returned",
                      <<new_message(content, mentions)>>)
    /\ UNCHANGED <<world_vars, agent_registry>>

MessageFromDict(data) ==
    /\ reply' = Reply("from_dict", <<data>>, "returned", <<from_dict(data)>>)
    /\ UNCHANGED <<world_vars, agent_registry>>

\* from_dict(m.to_dict()) of the message constructed last
MessageRoundTrip ==
    /\ reply.op \in {"Message", "from_dict"}
    /\ reply' = Reply("from_dict", <<to_dict(reply.value[1])>>, "returned",
                      <<from_dict(to_dict(reply.value[1]))>>)
    /\ UNCHANGED <<world_vars, agent_registry>>

NextMessage ==
    \/ \E content \in MessageContents : MessageDirect(content)
    \/ \E content \in MessageContents, mentions \in MentionLists :
           MessageWithMentions(content, mentions)
    \/ \E data \in MessageDicts : MessageFromDict(data)
    \/ MessageRoundTrip

SpecMessage == InitRegistry /\ [][NextMessage]_vars

(***************************************************************************)
(* Properties                                                              *)
(***************************************************************************)
\* the invocations of Agent.step of a that have begun and not ended
InFlight(a) ==
    (IF sched.pc = "respond" /\ sched.cur = a THEN 1 ELSE 0)
        + (IF stopper.task.pc = "respond" /\ stopper.task.cur = a THEN 1 ELSE 0)
        + (IF manual[a].pc = "await" THEN 1 ELSE 0)

\* the messages of the message events of a sequence of events
MessagesOf(es) == {es[i].msg[1] : i \in {j \in DOMAIN es : es[j].type = "message"}}

ThinkingCount(es, a, flag) ==
    Cardinality({i \in DOMAIN es : es[i] = ThinkingEvent(a, flag)})

\* the last k elements of seq, all of them when there are fewer, none when k = 0
LastOf(seq, k) == SubSeq(seq, Len(seq) - Min(k, Len(seq)) + 1, Len(seq))

\* the scheduler's invocation of sched.cur ends in this step
SchedulerReturns == sched.pc = "respond" /\ sched' # sched /\ sched'.pc # "none"

\* C1: under every interleaving of the scheduler with inject_message,
\* add_agent, remove_agent and the manual step of one agent, no participant has
\* two invocations of respond/step in flight at the same time.
C1_NoOverlappingInvocations == \A a \in AgentIds : InFlight(a) <= 1

\* C2: whenever the scheduler picks participants to speak (the candidates or
\* the icebreaker of a round, or the participant of the mention path) each of
\* them is IDLE at the moment it is picked.
C2_PickedOnlyWhenIdle ==
    [][/\ \A rnd \in RandomsNow, d \in Delays(1) :
              (SchedIterate(rnd, d) /\ current_round' = current_round + 1)
                  => \A a \in Range(select_speakers(World, rnd)) :
                         agents[a].status = "idle"
       /\ (/\ sched'.pc = "respond"
           /\ sched'.path = "mention"
           /\ sched' # sched)
              => agents[sched'.cur].status = "idle"]_vars

\* C3: for every Channel, whatever its max_history >= 0, after any sequence
\* of add_message calls len(messages) <= max_history and messages is the last
\* max_history appended messages in append order.
C3_BoundedLog ==
    \A n \in DOMAIN channels :
        /\ Len(channels[n].messages) <= channels[n].max_history
        /\ channels[n].messages = LastOf(appended, channels[n].max_history)

\* C4: within one round, whenever the k-th invoked speaker produced a
\* message, the context string handed to the (k+1)-th speaker contains that
\* message's content.
C4_NextSpeakerSeesReply ==
    [][(/\ SchedulerReturns
        /\ sched.path = "round"
        /\ sched'.pc = "respond"
        /\ sched'.path = "round"
        /\ sched'.pos = sched.pos + 1)
           => \A m \in MessagesOf(emitted') :
                  m.sender_id = sched.cur
                      => Contains(sched'.context[1].log, m.content)]_vars

\* C5: in Turn-based mode, once the log is non-empty, no message appended
\* by a round has the sender_id of the message that immediately precedes it in
\* the log at the moment it is appended.
C5_NoConsecutiveSameSender ==
    [][(/\ mode = "turn_based"
        /\ SchedulerReturns
        /\ sched.path = "round")
           => \A m \in MessagesOf(emitted') :
                  LET before == channels[m.channel].messages
                  IN  (m.sender_id = sched.cur /\ before # <<>>)
                          => before[Len(before)].sender_id # m.sender_id]_vars

\* C5, amended: in Turn-based mode no message appended by a round whose
\* speakers were selected on a non-empty log has the sender_id of the message
\* that was the most recent one of the log when the round selected its speakers.
C5_NotSenderSeenAtSelection ==
    [][(/\ mode = "turn_based"
        /\ SchedulerReturns
        /\ sched.path = "round"
        /\ sched.last_message # <<>>)
           => \A m \in MessagesOf(emitted') :
                  m.sender_id = sched.cur
                      => m.sender_id # sched.last_message[1].sender_id]_vars

\* a round selected two speakers on a non-empty log, the first one's message
\* has been appended and the second one is being invoked
C5_Witness ==
    /\ mode = "turn_based"
    /\ sched.pc = "respond"
    /\ sched.path = "round"
    /\ sched.last_message # <<>>
    /\ sched.pos = 2
    /\ \E m \in MessagesOf(emitted) : m.sender_id = sched.list[1]

\* C6: in Hybrid mode, while the Arena stays RUNNING and every adapter call
\* returns, a round is eventually run, whatever the log holds and whatever the
\* participants answer.
C6_RoundEventuallyRuns == [](running => <>(~running \/ current_round > 0))

\* C7: in every Hybrid tick at most one participant is invoked through the
\* mention path, and a tick that invokes one through the mention path leaves
\* current_round unchanged and emits no round_started event.
C7_MentionPreemptsRound ==
    [][sched'.branch = "hybrid"
           => /\ sched'.tick_mentions <= 1
              /\ sched'.tick_mentions >= 1
                     => /\ current_round' = current_round
                        /\ \A i \in DOMAIN emitted' : emitted'[i].type # "round_started"]_vars

\* a Hybrid tick that invoked a participant through the mention path has ended
C7_Witness ==
    /\ sched.branch = "hybrid"
    /\ sched.pc = "sleep"
    /\ sched.tick_mentions = 1

\* the name of a is, whatever the case of its letters, one of the mentions of m
NamedIn(a, m) == \E i \in DOMAIN m.mentions : Lower(m.mentions[i]) = Lower(AgentName(a))

\* the first position after p of lst whose agent is IDLE in ags and named in
\* m, and 0 when there is none
FirstDue(lst, p, ags, m) ==
    LET due == {i \in (p + 1)..Len(lst) : ags[lst[i]].status = "idle" /\ NamedIn(lst[i], m)}
    IN  IF due = {} THEN 0 ELSE CHOOSE i \in due : \A j \in due : i <= j

\* this step invokes the first agent due after position p and no other agent,
\* and ends the tick when no agent is due
InvokesNextDue(lst, p, ags, m) ==
    LET i == FirstDue(lst, p, ags, m)
        invoked == {a \in AgentIds : ThinkingCount(emitted', a, TRUE) > 0}
    IN  IF i = 0 THEN invoked = {} /\ sched'.pc = "sleep"
        ELSE /\ invoked = {lst[i]}
             /\ ThinkingCount(emitted', lst[i], TRUE) = 1
             /\ sched'.pc = "respond"
                    => /\ sched'.cur = lst[i]
                       /\ sched'.pos = i
                       /\ sched'.list = lst
                       /\ sched'.last_message = <<m>>

\* C8: in one Async tick the participants invoked are exactly the
\* participants registered when the tick began whose name matches,
\* case-insensitively, a mention of the message that was the most recent one
\* when the tick began and that are IDLE when reached; they are invoked one
\* after another in registry insertion order, each only after the previous
\* one's reply, if any, has been appended to the log.
C8_AsyncTickInvokesMentioned ==
    [][/\ (/\ mode = "async"
           /\ running
           /\ \E rnd \in RandomsNow, d \in Delays(1) : SchedIterate(rnd, d))
              => LET log == channels[default_channel].messages
                 IN  IF log = <<>>
                     THEN /\ sched'.pc = "sleep"
                          /\ \A a \in AgentIds : ThinkingCount(emitted', a, TRUE) = 0
                     ELSE InvokesNextDue(registry, 0, agents, log[Len(log)])
       /\ (/\ mode = "async"
           /\ SchedulerReturns
           /\ sched.path = "mention")
              => /\ InvokesNextDue(sched.list, sched.pos,
                                   [agents EXCEPT ![sched.cur].status = "idle"],
                                   sched.last_message[1])
                 /\ \A i \in DOMAIN emitted' :
                        (emitted'[i].type = "message" /\ emitted'[i].msg[1].sender_id = sched.cur)
                            => LET after == channels'[sched.channel].messages
                               IN  /\ after # <<>>
                                   /\ after[Len(after)] = emitted'[i].msg[1]
                                   /\ \A j \in DOMAIN emitted' :
                                          emitted'[j].type = "agent_thinking" /\ emitted'[j].flag
                                              => i < j]_vars

\* an Async tick has invoked one mentioned participant, appended its reply and
\* is invoking a second one
C8_Witness ==
    /\ mode = "async"
    /\ sched.pc = "respond"
    /\ sched.path = "mention"
    /\ sched.tick_mentions = 2
    /\ \E m \in MessagesOf(emitted) : m.sender_id = sched.list[1]

\* C9: every agent_thinking{thinking:true} event emitted for a participant
\* is followed by an agent_thinking{thinking:false} event for it when that
\* invocation ends: in every step the invocations begun are those still in
\* flight after it and those closed by a false event in it.
C9_ThinkingAlwaysClosed ==
    [][\A a \in AgentIds :
           ThinkingCount(emitted', a, TRUE) + InFlight(a)
               = ThinkingCount(emitted', a, FALSE) + InFlight(a)']_vars

\* the invocation of a that ends in this step appends no message, emits no
\* message event and leaves last_spoke_at and message_count of a alone
NoEffectOn(a) ==
    /\ \A n \in DOMAIN channels : channels'[n].messages = channels[n].messages
    /\ MessagesOf(emitted') = {}
    /\ agents'[a].last_spoke = agents[a].last_spoke
    /\ agents'[a].message_count = agents[a].message_count

\* C10: when the adapter result of an invocation is null or the empty
\* string, or the adapter call fails, no message is appended to any channel, no
\* message event is emitted, and the participant's last_spoke_at and
\* message_count are unchanged by that invocation.
C10_NoEffectWithoutText ==
    [][\A o \in Outcomes :
           o.kind # "text"
               => /\ \A d \in Delays(0) : SchedReturn(o, d) => NoEffectOn(sched.cur)
                  /\ \A a \in AgentIds : ManualReturn(a, o) => NoEffectOn(a)]_vars

\* an invocation of Agent.step of a passes "self.status = THINKING" in this step
InvocationStarts(a) == InFlight(a)' > InFlight(a)

\* C11: apart from disconnect() setting OFFLINE, a participant's status
\* only changes OFFLINE->IDLE by connect(), IDLE->THINKING at the start of an
\* invocation and THINKING->(SPEAKING->)IDLE at its end; an invocation never
\* starts from a status other than IDLE, and a disconnected participant is moved
\* to IDLE only by connect().
C11_StatusTransitions ==
    [][\A a \in AgentIds :
           /\ InvocationStarts(a) => agents[a].status = "idle"
           /\ agents'[a].status # agents[a].status
                  => \/ agents'[a] = disconnect(agents[a])
                     \/ /\ agents[a].status = "offline"
                        /\ agents'[a] = connect(agents[a])
                     \/ /\ agents[a].status = "idle"
                        /\ agents'[a].status = "thinking"
                        /\ InvocationStarts(a)
                     \/ /\ agents[a].status = "thinking"
                        /\ agents'[a].status = "idle"
                        /\ InFlight(a)' < InFlight(a)]_vars

\* C12: while the Arena is RUNNING an exception raised inside one iteration
\* of the control loop never ends the control-loop task: the task pauses and
\* its next step is another iteration, in every scheduling mode; only stop()
\* ends the task.
C12_LoopSurvivesErrors ==
    [][/\ (sched.pc # "none" /\ sched'.pc = "none") => (running /\ StopBegin)
       /\ (/\ running
           /\ sched.pc = "sleep"
           /\ sched.sleep = "error"
           /\ sched' # sched
           /\ sched'.pc # "none")
              => \E rnd \in RandomsNow, d \in Delays(1) : SchedIterate(rnd, d)]_vars

\* an invocation raised inside an iteration and the task is pausing
C12_Witness ==
    /\ running
    /\ sched.pc = "sleep"
    /\ sched.sleep = "error"
    /\ current_round > 0

\* C13: start() on a RUNNING Arena and stop() on a STOPPED Arena change
\* no Arena state (running, current_round, control-loop task, event-bus flag,
\* registry, channels, participants) and emit no event.
C13_IdempotentStartStop ==
    [][(StartOnRunning \/ StopOnStopped)
           => /\ emitted' = <<>>
              /\ UNCHANGED <<running, current_round, last_round_age, sched, stopper,
                             bus_running, registry, channels, agents, mode,
                             default_channel>>]_vars

\* start() has been called on a started Arena whose task has not run yet:
\* simulation_started is no longer the latest step's event
C13_Witness ==
    /\ running
    /\ sched.pc = "start"
    /\ emitted = <<>>
    /\ registry = <<>>
    /\ channels[default_channel].messages = <<>>

\* C14: when stop() returns on a RUNNING Arena the control-loop task has
\* terminated and the event bus is stopped after it; once stop() has returned
\* and until start() is called the scheduler takes no step, so it starts no
\* invocation and appends no message.
C14_StopEndsScheduler ==
    [][/\ StopFinish
              => /\ stopper.task.pc = "none"
                 /\ sched.pc = "none"
                 /\ bus_running
                 /\ ~bus_running'
       /\ (~running /\ stopper.pc = "none")
              => /\ sched.pc = "none"
                 /\ ~(\E rnd \in RandomsNow, d \in Delays(1) : SchedIterate(rnd, d))
                 /\ ~(\E o \in Outcomes, d \in Delays(0) : SchedReturn(o, d))]_vars

\* stop() has returned on an Arena that had run a round
C14_Witness ==
    /\ ~running
    /\ stopper.pc = "none"
    /\ current_round > 0
    /\ \E i \in DOMAIN emitted : emitted[i].type = "simulation_stopped"

\* the dispatches that ran to their end in the latest step
Finished == {bus.finished[i] : i \in DOMAIN bus.finished}

\* C15: for every dispatched event the handlers invoked are exactly the
\* handlers subscribed to the event's type, in subscription order, followed by
\* the handlers subscribed to "*", in subscription order, each registration
\* invoked once (for a dispatch during which no registration changed).
C15_DispatchOrder == \A r \in Finished : ~r.touched => r.inv = r.expect

\* the handler invocations of the latest step
Calls(b) == {b.calls[i] : i \in DOMAIN b.calls}

Count(seq, x) == Cardinality({i \in DOMAIN seq : seq[i] = x})

\* C16: when a handler raises while an event is dispatched, every handler
\* after it in the dispatch order is still invoked for that event (each
\* registered handler is invoked at least as often as it is registered), and the
\* dispatch loop keeps running: a task only ends when it is cancelled or the
\* bus is no longer started.
C16_HandlerErrorIsolated ==
    [][/\ \A i \in DOMAIN bus'.finished :
              LET r == bus'.finished[i]
              IN  (r.raised # {} /\ ~r.touched)
                      => \A h \in Handlers : Count(r.inv, h) >= Count(r.expect, h)
       /\ \A t \in DOMAIN bus.tasks :
              (bus.tasks[t].pc # "done" /\ bus'.tasks[t].pc = "done")
                  => bus.tasks[t].cancel \/ ~bus_running]_vars

\* the first handler of a dispatch raised, a later one was invoked, and the
\* task is back in wait_for with a later event in the queue
C16_Witness ==
    \E r \in Finished :
        /\ 1 \in r.raised
        /\ Len(r.inv) >= 2
        /\ Len(r.inv) = Len(r.expect)
        /\ bus.tasks[r.task].pc = "wait"
        /\ bus.queue # <<>>

\* C17: after any sequence of start(), subscribe() and emit() calls, once
\* stop() has returned no handler is invoked until start() is called again,
\* also for events that are still queued or are emitted after the stop.
C17_NoHandlerAfterStop ==
    [][(~bus_running /\ bus.stop = 0) => bus'.calls = <<>>]_vars

\* event e is queued and h is registered for its type or for "*"
Owed(e, h) ==
    \E i \in DOMAIN bus.queue :
        /\ bus.queue[i].id = e
        /\ h \in Range(bus.subs[bus.queue[i].type]) \cup Range(bus.subs[Wildcard])

Delivered(e, h) == \E c \in Calls(bus) : c.handler = h /\ c.event.id = e

RegisteredAny(b, h) == \E k \in Keys : h \in Range(b.subs[k])

C19_DispatchInEmissionOrder ==
    [][\A c \in Calls(bus') :
           \A t \in DOMAIN bus.tasks :
               (t # c.task /\ bus.tasks[t].pc = "handler")
                   => bus.tasks[t].ev[1].id > c.event.id]_vars

\* C20: after unsubscribe has removed the only registration of a handler,
\* the handler is not invoked for any event dispatched afterwards: a handler
\* invoked for an event that is taken from the queue in this step has a
\* registration.
C20_UnsubscribedNotInvoked ==
    [][\A c \in Calls(bus') :
           c.event \in Range(bus.queue) => RegisteredAny(bus, c.handler)]_vars

\* the names get_by_name is asked for: the test names in other letter cases
QueryNames == TestNames \cup {<<"A", "L">>, <<"a", "L">>, <<"b", "o">>, <<"B", "O">>}

Registered(r) == Range(r.agents)

\* C22: register of an agent whose id is already in _agents fails with an error
\* and leaves _agents and _by_name as they were; the agent stored under the id
\* is not replaced.
C22_DuplicateIdRejected ==
    [][\A agent \in TestAgents :
           (RegistryRegister(agent) /\ registry_get(agent_registry, agent.id) # <<>>)
               => /\ reply'.outcome = "raised"
                  /\ agent_registry' = agent_registry
                  /\ registry_get(agent_registry', agent.id)
                         = registry_get(agent_registry, agent.id)]_vars

\* a register call with a registered id and another name has come back
C22_Witness ==
    /\ reply.op = "register"
    /\ reply.outcome = "raised"
    /\ registry_get(agent_registry, reply.args[1].id) # <<reply.args[1]>>

\* C23: after any sequence of register and unregister calls, get_by_name of a
\* registered agent's name in any letter case returns that agent, _by_name has
\* exactly one entry per registered agent, and get_by_name returns only agents
\* that get() knows.
C23_IndicesAgree ==
    /\ \A p \in Registered(agent_registry) : \A q \in QueryNames :
           Lower(q) = Lower(p.name) => get_by_name(agent_registry, q) = <<p>>
    /\ Cardinality(DOMAIN agent_registry.by_name) = Len(agent_registry.agents)
    /\ \A q \in QueryNames :
           LET found == get_by_name(agent_registry, q)
           IN  found # <<>> => registry_get(agent_registry, found[1].id) = found

\* C25: for every log and every count >= 0, get_recent_messages(count) returns
\* the last min(count, len(messages)) messages in append order, the empty list
\* for count = 0, and leaves the log as it was.
C25_RecentIsLastN ==
    [][\A count \in 0..MaxRecent :
           ChannelGetRecent(count)
               => /\ reply'.value = LastOf(channels["general"].messages, count)
                  /\ channels' = channels]_vars

\* the channel a call of inject_message, broadcast or add_agent names
Unknown(n) == n \notin DOMAIN channels

\* C21: inject_message or broadcast to a channel that does not exist, and
\* add_agent with such a name in its channels list, come back to the caller
\* as a failure, never as a normal return.
C21_UnknownChannelFails ==
    [][/\ \A t \in HumanTexts, n \in ChannelNames :
              (InjectMessageTo(t, n) /\ Unknown(n)) => reply'.outcome = "raised"
       /\ \A m \in RoomMessages :
              (Broadcast(m) /\ Unknown(m.channel)) => reply'.outcome = "raised"
       /\ \A a \in AgentIds, n \in ChannelNames, connected \in BOOLEAN :
              (AddAgentTo(a, <<n>>, connected) /\ Unknown(n))
                  => reply'.outcome = "raised"]_vars

\* C24: in every reachable state channels holds a Channel under the current
\* value of default_channel.
C24_DefaultChannelExists ==
    /\ default_channel \in DOMAIN channels
    /\ channels[default_channel].name = default_channel

\* the API has switched the default room to a room that is not the first one
C24_Witness ==
    /\ reply.op = "switch_room"
    /\ reply.outcome = "returned"
    /\ default_channel = reply.args[1]
    /\ default_channel # "general"

\* the positions of the events of a type in a sequence of events
EventsOf(es, type) == {i \in DOMAIN es : es[i].type = type}

\* the scheduler is suspended in an invocation of a round
InRound(s) == s.pc = "respond" /\ s.path = "round"

\* C26: every round_started{round: r} is followed by one round_ended{round: r}
\* before any later round_started, whatever the invocations of the round do:
\* a step in which the scheduler leaves a round, or runs one from start to end,
\* emits round_ended for the current round after the round_started it emits.
C26_RoundBracketed ==
    [][((InRound(sched) \/ EventsOf(emitted', "round_started") # {}) /\ ~InRound(sched'))
           => /\ Cardinality(EventsOf(emitted', "round_ended")) = 1
              /\ \A i \in EventsOf(emitted', "round_ended") :
                     /\ emitted'[i].num = current_round'
                     /\ \A j \in EventsOf(emitted', "round_started") : j < i]_vars

\* C27: in turn-based mode every round, the first one after start() included,
\* is preceded in its iteration by the round_interval pause: the step that
\* starts a round is the end of a sleep of round_interval.
C27_SleepsBeforeRound ==
    [][(mode = "turn_based" /\ EventsOf(emitted', "round_started") # {})
           => (sched.pc = "sleep" /\ sched.sleep = "interval")]_vars

\* C28: in hybrid mode a tick without a mention match runs a round only when
\* round_interval has elapsed since the marker (so never on the tick that sets
\* the marker), it runs one round, and when the scheduler is back in its loop
\* after the round the marker has been reset, which keeps two consecutive
\* rounds round_interval apart.
C28_HybridRoundSpacing ==
    [][mode = "hybrid"
           => /\ EventsOf(emitted', "round_started") # {}
                     => /\ Cardinality(EventsOf(emitted', "round_started")) = 1
                        /\ last_round_age # -1
              /\ ((InRound(sched) \/ EventsOf(emitted', "round_started") # {})
                      /\ sched'.pc = "sleep")
                     => last_round_age' = 0]_vars

\* the position of x in a sequence that holds it
PosIn(seq, x) == CHOOSE i \in DOMAIN seq : seq[i] = x

\* the speakers of the round a step starts are in descending order of the score
\* they have against the last message, equal scores in registry order, and
\* they are the first max_speakers_per_round of the candidates
StartsSortedRound ==
    (EventsOf(emitted', "round_started") # {} /\ InRound(sched')
        /\ channels[default_channel].messages # <<>>)
        => LET m == channels[default_channel].messages[
                        Len(channels[default_channel].messages)]
               score(a) == should_respond(a, agents[a], m)
               list == sched'.list
           IN  /\ Len(list) = Min(MaxSpeakersPerRound, sched'.n_speakers)
               /\ \A i, j \in DOMAIN list :
                      i < j => /\ score(list[i]) >= score(list[j])
                               /\ score(list[i]) = score(list[j])
                                      => PosIn(registry, list[i]) < PosIn(registry, list[j])

\* an invocation the round starts is of the next speaker of its list
InvokesInOrder ==
    (InRound(sched') /\ sched' # sched) => sched'.cur = sched'.list[sched'.pos]

\* when the round is over, _agent_respond has been called for every speaker of
\* its list (for the last one also when that call raised)
InvokesAll ==
    (InRound(sched) /\ sched'.pc = "sleep")
        => Len(sched.list) = IF sched'.sleep = "error" THEN sched.pos + 1 ELSE sched.pos

\* C29: speaker selection returns the candidates by descending score, equal
\* scores in registry order, and a round invokes the first
\* min(max_speakers_per_round, number of candidates) of them, in that order and
\* no others.
C29_TopSpeakersInvoked == [][StartsSortedRound /\ InvokesInOrder /\ InvokesAll]_vars

\* a step starts a round on an empty log with at least one registered agent
IceStart ==
    /\ EventsOf(emitted', "round_started") # {}
    /\ channels[default_channel].messages = <<>>
    /\ registry # <<>>

\* the scheduler is suspended in the invocation of an icebreaker
IceRound(s) == InRound(s) /\ s.last_message = <<>>

\* C30 as stated: a round that runs on an empty log with at least one
\* registered agent picks one icebreaker and appends exactly one message: in
\* the step after which the round is over, the round's one message is emitted.
C30_IcebreakerOneMessage ==
    [][/\ IceStart => Cardinality(EventsOf(emitted', "agent_thinking")) = 1
       /\ ((IceStart \/ IceRound(sched)) /\ sched'.pc = "sleep")
              => Cardinality(EventsOf(emitted', "message")) = 1]_vars

\* C30 as amended: such a round picks one icebreaker and appends at most one
\* message: one, sent by the icebreaker, when the invocation returns a text
\* that is not empty, and none otherwise (a [PASS], an empty answer, an error
\* of the call, an icebreaker without a client).
C30_IcebreakerAtMostOne ==
    [][/\ IceStart
              => /\ Cardinality(EventsOf(emitted', "agent_thinking")) = 1
                 /\ EventsOf(emitted', "message") = {}
                 /\ InRound(sched') => (Len(sched'.list) = 1 /\ IceRound(sched'))
       /\ \A o \in Outcomes, d \in Delays(0) :
              (IceRound(sched) /\ SchedReturn(o, d))
                  => /\ ~InRound(sched')
                     /\ IF Truthy(step_result(o))
                        THEN /\ Cardinality(EventsOf(emitted', "message")) = 1
                             /\ \A i \in EventsOf(emitted', "message") :
                                    emitted'[i].msg[1].sender_id = sched.cur
                        ELSE EventsOf(emitted', "message") = {}]_vars

\* a round on an empty log has picked one of two registered agents, whose
\* invocation is in flight
C30_Witness ==
    /\ IceRound(sched)
    /\ Len(sched.list) = 1
    /\ Len(registry) = 2
    /\ agents[sched.cur].status = "thinking"

\* C31: the score of a participant for a message is min(0.95, 0.3*tendency +
\* 0.6) when its name is among the mentions, whatever the content, the
\* interests and the recency; otherwise min(0.8, (0.3*tendency + 0.15 for a
\* question mark + 0.10 for an interest found in the content) * r), r being
\* 0.3 under 10 s since it spoke, 0.6 under 30 s, and 1 otherwise.
C31_ScoreFormula ==
    reply.op = "should_respond" =>
        LET self == reply.args[1]
            m == reply.args[2]
            t == self.response_tendency
            named == \E i \in 1..Len(m.mentions) : Lower(m.mentions[i]) = Lower(self.name)
            asks == \E i \in 1..Len(m.content) : m.content[i] = "?"
            topical == \E k \in self.interests : Contains(Lower(m.content), Lower(k))
            sum == 150 * t + (IF asks THEN 1500 ELSE 0) + (IF topical THEN 1000 ELSE 0)
            r == CASE self.last_spoke = "lt10" -> 3
                   [] self.last_spoke = "lt30" -> 6
                   [] OTHER -> 10
        IN  /\ Len(reply.value) = 1
            /\ IF named
               THEN reply.value[1] = Min(9500, 150 * t + 6000)
               ELSE 10 * reply.value[1] = Min(80000, sum * r)

\* tendency 0.5, mentioned in another letter case, having spoken under 10 s
\* ago: the score is 0.75
C31_Witness ==
    /\ reply.op = "should_respond"
    /\ reply.args[1].response_tendency = 10
    /\ reply.args[1].last_spoke = "lt10"
    /\ reply.args[1].name = <<"A", "l">>
    /\ reply.args[2].content = <<"@", "a", "l">>
    /\ reply.value = <<7500>>

\* the @word tokens of a text, in order: for every "@" that is followed by a
\* word character, the longest run of word characters after it
AtWords(text) ==
    LET at == SelectSeq([i \in 1..Len(text) |-> i],
                        LAMBDA i : /\ text[i] = "@"
                                   /\ i < Len(text)
                                   /\ text[i + 1] \in WordChars)
        word(i) == CHOOSE w \in {SubSeq(text, i + 1, j) : j \in (i + 1)..Len(text)} :
                       /\ \A k \in 1..Len(w) : w[k] \in WordChars
                       /\ i + Len(w) = Len(text) \/ text[i + Len(w) + 1] \notin WordChars
    IN  [k \in 1..Len(at) |-> word(at[k])]

\* C32: the mentions of every Message are the @word tokens of its content, in
\* order, with case and duplicates kept, however the Message was constructed:
\* directly, with a mentions argument, or through from_dict.
C32_MentionsFromContent ==
    reply.op \in {"Message", "from_dict"} =>
        reply.value[1].mentions = AtWords(reply.value[1].content)

\* a Message constructed without a mentions argument, or with an empty one,
\* has the @word tokens of its content as mentions
C32_DerivedWhenNotGiven ==
    (/\ reply.op \in {"Message", "from_dict"}
     /\ \/ reply.op = "Message" /\ (Len(reply.args) = 1 \/ reply.args[2] = <<>>)
        \/ reply.op = "from_dict" /\ ("mentions" \notin DOMAIN reply.args[1]
                                         \/ reply.args[1].mentions = <<>>))
        => reply.value[1].mentions = AtWords(reply.value[1].content)

\* the messages of the message events of es, in the order of emission
MessageEvents(es) ==
    LET picked == SelectSeq(es, LAMBDA e : e.type = "message")
    IN  [i \in 1..Len(picked) |-> picked[i].msg[1]]

\* add_message of each of msgs in turn
RECURSIVE AddAll(_, _)
AddAll(ch, msgs) ==
    IF msgs = <<>> THEN ch ELSE AddAll(add_message(ch, Head(msgs)), Tail(msgs))

\* the log of channel n before the step (empty for a channel created by it)
LogBefore(n) == IF n \in DOMAIN channels THEN channels[n].messages ELSE <<>>

\* C33: every message appended through broadcast has exactly one message
\* event, the message events are emitted in the order of the log, and a
\* broadcast that appends nothing emits no message event: in every step each
\* channel's log grows by exactly the messages of the step's message events
\* for that channel, in their order (or is emptied, with no event), and every
\* message event names a channel that exists.
C33_OneEventPerAppend ==
    [][/\ \A n \in DOMAIN channels' :
              LET evs == SelectSeq(MessageEvents(emitted'), LAMBDA m : m.channel = n)
              IN  \/ /\ n \in DOMAIN channels
                     /\ channels'[n].messages = AddAll(channels[n], evs).messages
                  \/ /\ channels'[n].messages = <<>>
                     /\ evs = <<>>
       /\ \A i \in 1..Len(MessageEvents(emitted')) :
              MessageEvents(emitted')[i].channel \in DOMAIN channels']_vars

\* a broadcast for a channel that does not exist has just returned, after
\* replies, a join and a leave notice were appended with their events
C33_Witness ==
    /\ reply.op = "inject_message"
    /\ reply.args[1] \notin DOMAIN channels
    /\ emitted = <<>>
    /\ \E i \in 1..Len(channels["general"].messages) :
           channels["general"].messages[i].type = "leave"
    /\ \E i \in 1..Len(channels["general"].messages) :
           channels["general"].messages[i].sender_id = "a1"

\* C34: when a handler is subscribed or unsubscribed while an event is being
\* dispatched, the handlers invoked for that event are exactly those
\* registered when its dispatch began, in their order: none is skipped and
\* none added during the dispatch is invoked.
C34_DispatchUsesSnapshot == \A r \in Finished : r.touched => r.inv = r.expect

\* the lifecycle events in es
Lifecycle(es) == SelectSeq(es, LAMBDA e : e.type \in LifecycleTypes)

\* C35: each start() of a stopped Arena emits exactly one simulation_started
\* and each stop() of a running Arena exactly one simulation_stopped with
\* rounds = current_round, and each of these events is eventually dispatched
\* to the handlers subscribed to its type.
C35_LifecycleEventsDelivered ==
    /\ [][/\ (~running /\ running')
                 => Lifecycle(emitted') = <<Event("simulation_started", Nil, FALSE, 0, <<>>)>>
          /\ (stopper.pc # "none" /\ stopper'.pc = "none")
                 => Lifecycle(emitted') =
                        <<Event("simulation_stopped", Nil, FALSE, current_round, <<>>)>>
          /\ (running' = running /\ ~(stopper.pc # "none" /\ stopper'.pc = "none"))
                 => (Lifecycle(emitted') = <<>> \/ UNCHANGED emitted)]_vars
    /\ \A e \in 1..(2 * MaxStarts), h \in Handlers :
           [](Owed(e, h) => <>Delivered(e, h))

\* C36: an add_agent call that fails, because the id is registered already or
\* because connect() raises, leaves the Registry and every channel's member
\* set as they were, and produces no agent_joined event and no join message.
C36_FailedAddLeavesNoTrace ==
    [][\A a \in AgentIds, n \in ChannelNames, connected \in BOOLEAN :
           (AddAgentTo(a, <<n>>, connected) /\ reply'.outcome = "raised")
               => /\ registry' = registry
                  /\ DOMAIN channels' = DOMAIN channels
                  /\ \A c \in DOMAIN channels :
                         /\ channels'[c].members = channels[c].members
                         /\ channels'[c].messages = channels[c].messages
                  /\ emitted' = <<>>]_vars

\* C37: whenever running is true and no start() or stop() call is in
\* progress, a control-loop task exists that has not terminated and the
\* event bus is dispatching, whatever the interleaving of the start() and
\* stop() calls was.
C37_RunningMeansLoopAndBus ==
    (running /\ stopper.pc = "none" /\ reply.outcome # "pending")
        => (sched.pc # "none" /\ bus_running)

\* C38: after stop() has returned no participant is left THINKING or SPEAKING
\* by a scheduler invocation that stop() cancelled: the participant the
\* control loop was invoking when it was cancelled is IDLE again, and with the
\* Arena stopped a participant is THINKING only while a manual step of it is
\* in flight.
C38_NoThinkingAfterStop ==
    /\ [](( ~running /\ stopper.pc = "none" /\ sched.pc = "none")
             => \A a \in AgentIds :
                    agents[a].status \in {"thinking", "speaking"} => manual[a].pc = "await")
    /\ [][(stopper.pc = "await_task" /\ stopper.task.pc = "respond" /\ stopper'.pc # "await_task")
             => agents'[stopper.task.cur].status = "idle"]_vars

\* stop() has cancelled the control loop inside an invocation and awaits it
C38_Witness ==
    /\ ~running
    /\ stopper.pc = "await_task"
    /\ stopper.task.pc = "respond"
    /\ agents[stopper.task.cur].status = "thinking"

\* the positions of the log of the default channel
LogPositions == 1..Len(channels[default_channel].messages)

\* the message at position i of the log is the leave notice of participant a
LeaveNoticeAt(i, a) ==
    /\ channels[default_channel].messages[i].type = "leave"
    /\ channels[default_channel].messages[i].content = LeaveText(a)

\* the message at position i of the log is the join notice of participant a
JoinNoticeAt(i, a) ==
    /\ channels[default_channel].messages[i].type = "join"
    /\ channels[default_channel].messages[i].content = JoinText(a)

\* C39: every chat message the scheduler appends on behalf of a participant
\* has a sender that is registered at the moment of the append, also when
\* remove_agent ran during the invocation; and in the log no message of a
\* participant follows that participant's leave notice, unless the
\* participant has joined again in between.
C39_SenderRegisteredAtAppend ==
    /\ [][sched.pc = "respond"
             => \A i \in 1..Len(MessageEvents(emitted')) :
                    (/\ MessageEvents(emitted')[i].type = "chat"
                     /\ MessageEvents(emitted')[i].sender_id = sched.cur
                     /\ MessageEvents(emitted') # MessageEvents(emitted))
                        => sched.cur \in Range(registry')]_vars
    /\ [](\A a \in AgentIds : \A i \in LogPositions, j \in LogPositions :
              (/\ i < j
               /\ LeaveNoticeAt(i, a)
               /\ channels[default_channel].messages[j].sender_id = a)
                  => \E k \in LogPositions : i < k /\ k < j /\ JoinNoticeAt(k, a))

\* the latest step of the Arena was the end of an invocation of a that
\* appended nothing, and the scheduler sleeps until its next tick
PassedLastTick(a) ==
    /\ sched.pc = "sleep"
    /\ sched.branch = "async"
    /\ sched.tick_mentions > 0
    /\ emitted = <<ThinkingEvent(a, FALSE)>>

\* C40: in Async mode a message triggers at most one mention-driven
\* invocation of a participant it mentions: when the invocation of a
\* participant for the most recent message has ended without an answer and
\* nothing was appended since, the next tick does not invoke that
\* participant for the same message again.
C40_OneInvocationPerMention ==
    [][\A a \in AgentIds :
           PassedLastTick(a)
               => ~(/\ sched'.pc = "respond"
                    /\ sched'.path = "mention"
                    /\ sched'.cur = a
                    /\ channels' = channels)]_vars
====
